---- MODULE Spec2Model ----
(***************************************************************************)
(* Bulletin-board API (chapters ch01..ch05): rate-limited article/comment  *)
(* handlers over the relational store, the Valkey rate-limit marks and the *)
(* OpenSearch index (ch03), cursor pagination (ch01/ch03), the cache-aside *)
(* advertisement read (ch03/ch05) and the notification fan-out with its    *)
(* queue consumer (ch05).                                                  *)
(*                                                                         *)
(* Every handler is an asyncio coroutine: it may be suspended at each      *)
(* `await`, so each awaited store call is one atomic step of the request   *)
(* and steps of different requests interleave.  Reads made by one request  *)
(* inside one session before its commit see one snapshot (MySQL/InnoDB     *)
(* REPEATABLE READ, the engine default; no isolation level is configured), *)
(* so consecutive SELECTs of one request are one step.                     *)
(***************************************************************************)
EXTENDS Integers, Sequences, FiniteSets, TLC

(***************************************************************************)
(* Bounds of the model.                                                    *)
(***************************************************************************)
MaxArticles == 2       \* rows the article table may hold
MaxComments == 1       \* rows the comment table may hold
TickStep == 150        \* seconds by which the clock advances in one step
MaxRequests == 3       \* requests the server accepts in one run
MaxFaults == 1         \* store calls that raise in one run
MaxPageArticles == 12  \* rows of the article table of a long-lived board
MaxHidden == 1         \* of which deleted or of another board
MaxAds == 2            \* rows the advertisement table may hold
MaxMsgComments == 2    \* comments in the table when a message is delivered
MaxEvents == 3         \* events a history collection may hold
MaxTokens == 3         \* access tokens signed in one run
MaxDeliveries == 3     \* deliveries of one message in one run

\* Time is counted in half days.
DayLen == 2

(***************************************************************************)
(* Program constants.                                                      *)
(***************************************************************************)
ARTICLE_WRITE_TTL == 300
ARTICLE_EDIT_TTL == 300
COMMENT_WRITE_TTL == 60
COMMENT_EDIT_TTL == 60
AD_CACHE_TTL == 3600
NO_TTL == 0            \* a key set without expiry

NULL == 0              \* SQL NULL / Python None of an integer column or parameter
NoText == "None"       \* Python None of an optional str field

Users == {1, 2}        \* user 1 is the master admin, user 2 a member
Slots == {1, 2}        \* two requests may be in flight at once
Boards == {1, 2}       \* the boards that exist
BoardIds == {1, 3}     \* the boards a write names: board 1, or board 3 which does not exist
Texts == {"a", "b"}
Kinds == {"article_write", "article_edit", "comment_write", "comment_edit"}
Keys == Users \X Kinds

Role(u) == IF u = 1 THEN "admin" ELSE "member"

TTLOf(k) ==
    CASE k = "article_write" -> ARTICLE_WRITE_TTL
      [] k = "article_edit" -> ARTICLE_EDIT_TTL
      [] k = "comment_write" -> COMMENT_WRITE_TTL
      [] k = "comment_edit" -> COMMENT_EDIT_TTL

Max(a, b) == IF a >= b THEN a ELSE b
Min(a, b) == IF a <= b THEN a ELSE b

VARIABLES
    articles,   \* relational table article: id -> row (a sequence, ids 1..Len)
    comments,   \* relational table comment: id -> row
    marks,      \* Valkey rate-limit keys: <<user, kind>> -> remaining TTL (0: no key)
    index,      \* OpenSearch index "article": the set of documents
    reqs,       \* the in-flight requests: slot -> request frame
    served,     \* requests accepted so far
    faults,     \* store calls that have raised so far
    cool        \* history: <<user, kind>> -> what is left of the window opened by
                \* the latest successful request of that kind ([any], [write])

coreVars == <<articles, comments, marks, index, reqs, served, faults, cool>>

VARIABLES
    chapter,    \* which chapter's application runs: 3 or 5
    ads,        \* relational table advertisement: id -> row
    cache,      \* Valkey keys ad:{id}: id -> entry (present, value, ttl)
    adreq,      \* the advertisement request in flight
    views,      \* document collection adViewHistory, in insertion order
    last        \* history: id -> the payload of the latest answered get_ad

adVars == <<chapter, ads, cache, adreq, views, last>>

VARIABLES
    queue,          \* the message in the RabbitMQ queue: body, state, deliveries
    run,            \* the delivery in flight: on_message and its process_message
    notifications   \* document collection userNotificationHistory, in insertion order

msgVars == <<queue, run, notifications>>

VARIABLES
    history,    \* a history collection (adViewHistory or adClickHistory): its events
    clock,      \* datetime.now(timezone.utc)
    stats       \* the _get_history_stats call in flight and its result

statVars == <<history, clock, stats>>

VARIABLES
    users,      \* relational table user: id -> row
    blacklist,  \* relational table jwt_blacklist: the tokens of its rows
    tokens,     \* the access tokens create_access_token has signed
    expired,    \* those of them whose exp has passed
    ureqs       \* the in-flight requests of the user router: slot -> frame

userVars == <<users, blacklist, tokens, expired, ureqs>>

VARIABLES
    derived,    \* ch01's article table, run beside ch03's: id -> row with the age
                \* of created_at and of updated_at
    mirror,     \* what ch01's article router did with the request in flight
    clicks      \* document collection adClickHistory, in insertion order

sideVars == <<derived, mirror, clicks>>

vars == <<coreVars, adVars, msgVars, statVars, userVars, sideVars>>

\* What the steps of one part leave alone.
others == <<adVars, msgVars, statVars, userVars, sideVars>>

\* The variables of the board that advertisement requests leave alone.
boardVars ==
    <<articles, comments, marks, index, reqs, faults, cool, msgVars, statVars, userVars,
      sideVars>>

(***************************************************************************)
(* Advertisements: rows, cached values and responses.  A datetime is a     *)
(* positive number, None is NULL.                                          *)
(***************************************************************************)
AdIds == 1..MaxAds

\* datetime.isoformat(): the text of a datetime.
isoformat(dt) == <<"iso", dt>>

\* None where a text may stand (null in JSON).
NoIso == <<>>

\* What pydantic makes of a JSON value for an Optional[datetime] field.
parse_datetime(v) == IF v = NoIso THEN NULL ELSE v[2]

json_dumps(d) == <<"json", d>>
json_loads(t) == t[2]

\* A variant of the serialization: start_date is left out.
_ad_to_dict_no_start(id, ad) ==
    [id |-> id, title |-> ad.title, is_deleted |-> ad.is_deleted,
     start_date |-> NoIso,
     created_at |-> IF ad.created_at # NULL THEN isoformat(ad.created_at) ELSE NoIso]

_ad_to_dict(id, ad) ==
    [id |-> id, title |-> ad.title, is_deleted |-> ad.is_deleted,
     start_date |-> IF ad.start_date # NULL THEN isoformat(ad.start_date) ELSE NoIso,
     created_at |-> IF ad.created_at # NULL THEN isoformat(ad.created_at) ELSE NoIso]

\* AdResponse(**data) of a cached dict.
AdResponseOfDict(d) ==
    [id |-> d.id, title |-> d.title, is_deleted |-> d.is_deleted,
     start_date |-> parse_datetime(d.start_date),
     created_at |-> parse_datetime(d.created_at)]

\* AdResponse built from the attributes of a row (response_model, model_validate).
AdResponseOfRow(id, ad) ==
    [id |-> id, title |-> ad.title, is_deleted |-> ad.is_deleted,
     start_date |-> ad.start_date, created_at |-> ad.created_at]

NoRow == [title |-> NoText, is_deleted |-> FALSE, start_date |-> NULL, created_at |-> NULL]
NoPayload == AdResponseOfRow(NULL, NoRow)
NoEntry == [present |-> FALSE, value |-> <<>>, ttl |-> NO_TTL]

\* valkey.set in chapter 3, valkey.setex with _AD_CACHE_TTL in chapter 5.
CachePut(id, ad) ==
    [cache EXCEPT ![id] = [present |-> TRUE, value |-> json_dumps(_ad_to_dict(id, ad)),
                           ttl |-> IF chapter = 5 THEN AD_CACHE_TTL ELSE NO_TTL]]

\* A variant of the row filter without the is_deleted condition.
ActiveAd_any(id) == id \in 1..Len(ads)

ActiveAd(id) == id \in 1..Len(ads) /\ ads[id].is_deleted = FALSE

\* An access token: its claims (sub, iat).  NoToken is no token at all.
NoToken == [sub |-> NoText, iat |-> 0]

AdIdle ==
    [op |-> "idle", pc |-> "idle", authorization |-> NoToken, user |-> NULL,
     ad_id |-> NULL, start_date |-> NULL,
     cached |-> <<>>, hit |-> FALSE, queried |-> FALSE, stored |-> FALSE,
     row |-> NoRow, payload |-> NoPayload, prev |-> NoPayload, status |-> 0]

RunIdle ==
    [pc |-> "idle", body |-> <<>>, type |-> NoText, comment_id |-> NULL,
     article_id |-> NULL, content |-> NoText, user_ids |-> {}, todo |-> {},
     status |-> 0]

\* What on_message got from client.post: a response with a status, or an
\* exception.
NotSeen == [raised |-> FALSE, status |-> 0]
Returned(status) == [raised |-> FALSE, status |-> status]
Raised == [raised |-> TRUE, status |-> 0]

UserIdle ==
    [op |-> "idle", pc |-> "idle", authorization |-> NoToken, current_user |-> NULL,
     user_id |-> NULL, username |-> NoText, email |-> NoText, password_ok |-> FALSE,
     role |-> NoText, token |-> NoToken, committed |-> FALSE, status |-> 0]

\* The user router at rest: no user row, no token.
NoUsers ==
    /\ users = <<>>
    /\ blacklist = {}
    /\ tokens = {}
    /\ expired = {}
    /\ ureqs = [s \in Slots |-> UserIdle]

\* No statistics request, an empty history collection.
StatsIdle == [pc |-> "idle", start |-> 0, end |-> 0, results_user |-> {}, result |-> {}]

NoStats ==
    /\ history = {}
    /\ clock = 2 * DayLen
    /\ stats = StatsIdle

NoMessages ==
    /\ queue = [body |-> <<>>, state |-> "none", deliveries |-> 0, acks |-> 0,
                requeues |-> 0, seen |-> NotSeen]
    /\ run = RunIdle
    /\ notifications = <<>>

\* ch01's router does not run, no click is recorded.
MirrorIdle ==
    [count |-> 0, status |-> 0, recent |-> FALSE, agreed |-> TRUE, same |-> TRUE]

NoSide ==
    /\ derived = <<>>
    /\ mirror = MirrorIdle
    /\ clicks = <<>>

NoAds ==
    /\ chapter = 3
    /\ ads = <<>>
    /\ cache = [id \in AdIds |-> NoEntry]
    /\ adreq = AdIdle
    /\ views = <<>>
    /\ last = [id \in AdIds |-> NoPayload]


(***************************************************************************)
(* Request frames.  A frame holds the handler's parameters and locals:     *)
(* op/pc say which handler runs and at which await it is suspended; row_*  *)
(* is the ORM object loaded by the SELECT (dirty_* its modified columns);  *)
(* committed/marked record that session.commit() / setex returned; window  *)
(* is what is left of the TTL this request gave its mark.                  *)
(***************************************************************************)
Idle ==
    [op |-> "idle", pc |-> "idle", user |-> NULL, board_id |-> NULL,
     article_id |-> NULL, comment_id |-> NULL, title |-> NoText,
     content |-> NoText, status |-> 0, row_title |-> NoText,
     row_content |-> NoText, dirty_title |-> FALSE, dirty_content |-> FALSE,
     committed |-> FALSE, marked |-> FALSE, window |-> 0,
     last_id |-> NULL, first_id |-> NULL, hits |-> {}, rows |-> <<>>,
     row_comments |-> {}]

(***************************************************************************)
(* The awaits of each handler in the order written.  A handler runs them   *)
(* in this order, leaving early where it raises.                           *)
(***************************************************************************)
\* A variant of the order: each write handler sets its key before it commits.
Order_mark_first(op) ==
    CASE op = "write_article" ->
            <<"board", "check", "setex", "commit", "refresh", "index">>
      [] op = "edit_article" ->
            <<"check", "select", "setex", "commit", "refresh", "index">>
      [] op = "delete_article" -> <<"check", "select", "setex", "commit", "unindex">>
      [] op = "write_comment" -> <<"check", "select", "setex", "commit", "refresh">>
      [] op = "edit_comment" -> <<"check", "select", "setex", "commit", "refresh">>
      [] op = "delete_comment" -> <<"check", "select", "setex", "commit">>
      [] op = "search_articles" -> <<"search", "query">>
      [] OTHER -> <<"query">>

\* A variant of the order: the edit and delete handlers look for their target
\* before they check the rate limit.
Order_select_first(op) ==
    CASE op = "write_article" ->
            <<"board", "check", "commit", "refresh", "setex", "index">>
      [] op = "edit_article" ->
            <<"select", "check", "commit", "refresh", "setex", "index">>
      [] op = "delete_article" -> <<"select", "check", "commit", "setex", "unindex">>
      [] op = "write_comment" -> <<"select", "check", "commit", "refresh", "setex">>
      [] op = "edit_comment" -> <<"select", "check", "commit", "refresh", "setex">>
      [] op = "delete_comment" -> <<"select", "check", "commit", "setex">>
      [] op = "search_articles" -> <<"search", "query">>
      [] OTHER -> <<"query">>

Order(op) ==
    CASE op = "write_article" ->
            <<"board", "check", "commit", "refresh", "setex", "index">>
      [] op = "edit_article" ->
            <<"check", "select", "commit", "refresh", "setex", "index">>
      [] op = "delete_article" -> <<"check", "select", "commit", "setex", "unindex">>
      [] op = "write_comment" -> <<"check", "select", "commit", "refresh", "setex">>
      [] op = "edit_comment" -> <<"check", "select", "commit", "refresh", "setex">>
      [] op = "delete_comment" -> <<"check", "select", "commit", "setex">>
      [] op = "search_articles" -> <<"search", "query">>
      [] OTHER -> <<"query">>

\* The await after pc, or "return" after the last one.
NextPc(op, pc) ==
    LET o == Order(op)
        i == CHOOSE j \in 1..Len(o) : o[j] = pc
    IN IF i < Len(o) THEN o[i + 1] ELSE "return"

\* status_code of the route (200 unless the decorator says 201).
SuccessStatus(op) == IF op \in {"write_article", "write_comment"} THEN 201 ELSE 200

\* A variant of the kinds: delete_article uses the key of write_article.
KindOf_delete_as_write(op) ==
    CASE op \in {"write_article", "delete_article"} -> "article_write"
      [] op = "edit_article" -> "article_edit"
      [] op = "write_comment" -> "comment_write"
      [] op \in {"edit_comment", "delete_comment"} -> "comment_edit"
      [] OTHER -> "none"

\* The rate-limit kind a handler checks and marks ("none": not rate-limited).
KindOf(op) ==
    CASE op = "write_article" -> "article_write"
      [] op \in {"edit_article", "delete_article"} -> "article_edit"
      [] op = "write_comment" -> "comment_write"
      [] op \in {"edit_comment", "delete_comment"} -> "comment_edit"
      [] OTHER -> "none"

ArticleIds == 1..Len(articles)
CommentIds == 1..Len(comments)

\* select(Board).where(Board.id == board_id, Board.is_deleted == False)
ActiveBoard(b) == b \in Boards

\* select(Article).where(Article.id == article_id, Article.board_id == board_id,
\*                       Article.is_deleted == False)
\* A variant of the article filter without the is_deleted condition.
ActiveArticle_any(aid, bid) ==
    /\ aid \in ArticleIds
    /\ articles[aid].board_id = bid

ActiveArticle(aid, bid) ==
    /\ aid \in ArticleIds
    /\ articles[aid].board_id = bid
    /\ articles[aid].is_deleted = FALSE

\* select(Comment).where(Comment.id == comment_id, Comment.article_id == article_id,
\*                       Comment.is_deleted == False)
ActiveComment(cid, aid) ==
    /\ cid \in CommentIds
    /\ comments[cid].article_id = aid
    /\ comments[cid].is_deleted = FALSE

\* BaseMixin.soft_delete: the flag is set, the row stays.
soft_delete(row) == [row EXCEPT !.is_deleted = TRUE]

\* client.exists(f"rate_limit:{user_id}:{kind}")
KeyExists(u, k) == marks[<<u, k>>] > 0

\* client.setex(f"rate_limit:{user_id}:{kind}", ttl, "1")
\* A variant of setex: every key gets the comment TTL.
SetEx_short(u, k) == [marks EXCEPT ![<<u, k>>] = COMMENT_WRITE_TTL]

SetEx(u, k) == [marks EXCEPT ![<<u, k>>] = TTLOf(k)]

\* The body _index_article sends for an article.
IndexBody(id, title, content, board_id, author_id) ==
    [id |-> id, title |-> title, content |-> content,
     board_id |-> board_id, author_id |-> author_id]

\* client.index(index, id, body): the document with that id is replaced.
IndexPut(doc) == {d \in index : d.id # doc.id} \cup {doc}

\* client.delete(index, id)
IndexDelete(id) == {d \in index : d.id # id}

\* The full-text match of the search query: content is one token here.
Matches(keyword, content) == keyword = content

\* The hits of search_articles' query: match on content, term filter on board_id.
SearchHits(keyword, bid) ==
    {d.id : d \in {e \in index : Matches(keyword, e.content) /\ e.board_id = bid}}

\* The rows search_articles returns for the hits.
SearchRows(hits, bid) ==
    {i \in ArticleIds : i \in hits /\ articles[i].board_id = bid
                        /\ articles[i].is_deleted = FALSE}

\* The comments get_article embeds.
ArticleComments(aid) ==
    {c \in CommentIds : comments[c].article_id = aid /\ comments[c].is_deleted = FALSE}

(***************************************************************************)
(* get_articles: WHERE board and not deleted, the cursor (last_id wins     *)
(* over first_id), ORDER BY id DESC LIMIT 10.  The result is the sequence  *)
(* of ids in the order returned.                                           *)
(***************************************************************************)
PAGE_LIMIT == 10

RECURSIVE DescLimit(_, _)
DescLimit(S, n) ==
    IF S = {} \/ n = 0 THEN <<>>
    ELSE LET m == CHOOSE x \in S : \A y \in S : y <= x
         IN <<m>> \o DescLimit(S \ {m}, n - 1)

\* A variant of the cursor: the bound itself is included.
CursorFilter_inclusive(id, last_id, first_id) ==
    IF last_id # NULL THEN id <= last_id
    ELSE IF first_id # NULL THEN id >= first_id
    ELSE TRUE

\* A variant of the cursor: both bounds apply when both are given.
CursorFilter_both(id, last_id, first_id) ==
    /\ last_id # NULL => id < last_id
    /\ first_id # NULL => id > first_id

CursorFilter(id, last_id, first_id) ==
    IF last_id # NULL THEN id < last_id
    ELSE IF first_id # NULL THEN id > first_id
    ELSE TRUE

get_articles_rows(table, bid, last_id, first_id) ==
    DescLimit({i \in 1..Len(table) :
                  /\ table[i].board_id = bid
                  /\ table[i].is_deleted = FALSE
                  /\ CursorFilter(i, last_id, first_id)}, PAGE_LIMIT)

SeqRange(q) == {q[i] : i \in 1..Len(q)}

(***************************************************************************)
(* Steps of a request.                                                     *)
(***************************************************************************)
\* The request is suspended again, in frame r.
Goto(s, r) ==
    /\ reqs' = [reqs EXCEPT ![s] = r]
    /\ UNCHANGED <<served, faults, cool, others>>

Successful(st) == st \in {200, 201}

\* The window the latest successful request of a kind opened: the TTL of the mark
\* it set, or a full TTL when it set none.
CoolAfter(r, st) ==
    LET k == KindOf(r.op) IN
    IF Successful(st) /\ k # "none"
    THEN [cool EXCEPT ![<<r.user, k>>] =
            [any |-> IF r.marked THEN r.window ELSE TTLOf(k),
             write |-> IF r.marked THEN r.window ELSE @.write]]
    ELSE cool

\* The handler returns or raises HTTPException: the response is ready.
Respond(s, r, st) ==
    /\ reqs' = [reqs EXCEPT ![s] = [r EXCEPT !.pc = "done", !.status = st]]
    /\ cool' = CoolAfter(r, st)
    /\ UNCHANGED <<served, others>>

Finish(s, r, st) ==
    /\ Respond(s, r, st)
    /\ faults' = faults

\* The awaited call returned: on to the next await, or return the response.
Advance(s, r) ==
    IF NextPc(r.op, r.pc) = "return"
    THEN Finish(s, r, SuccessStatus(r.op))
    ELSE Goto(s, [r EXCEPT !.pc = NextPc(r.op, r.pc)])

\* A store call raises: one more fault.
Fault == /\ faults < MaxFaults
         /\ faults' = faults + 1

\* An awaited store call raises and nothing catches it: the response is 500.
Fail(s, r) ==
    /\ Fault
    /\ Respond(s, r, 500)

\* _check_*_rate_limit: 429 when the key exists.
RateLimited(r) == KeyExists(r.user, KindOf(r.op))

CheckRateLimit(s, r) ==
    IF RateLimited(r) THEN Finish(s, r, 429) ELSE Advance(s, r)

\* The awaited _set_*_rate_limit: it returns, or the store call raises.
SetRateLimit(s, r) ==
    \/ /\ marks' = SetEx(r.user, KindOf(r.op))
       /\ Advance(s, [r EXCEPT !.marked = TRUE, !.window = TTLOf(KindOf(r.op))])
    \/ /\ marks' = marks
       /\ Fail(s, r)

\* session.commit() raises: nothing is written.
CommitFails(s, r) ==
    /\ UNCHANGED <<articles, comments>>
    /\ Fail(s, r)

\* Slots are taken in order: which free slot a request gets does not matter.
Free(s) == /\ reqs[s].op = "idle"
           /\ \A t \in Slots : t < s => reqs[t].op # "idle"

InFlight(op) == Cardinality({t \in Slots : reqs[t].op = op /\ reqs[t].pc # "done"})

(***************************************************************************)
(* Arrival of a request: the framework resolves the parameters and the     *)
(* authenticated user and calls the handler.                               *)
(***************************************************************************)
WriteBodies == {[title |-> "a", content |-> "a"]}
EditBodies == {[title |-> t, content |-> c] : t \in {NoText, "b"}, c \in {NoText, "b"}}
ListCursors == {NULL, 1}

Frame(op, u, bid, aid, cid, title, content) ==
    [Idle EXCEPT !.op = op, !.pc = Order(op)[1], !.user = u, !.board_id = bid,
                 !.article_id = aid, !.comment_id = cid, !.title = title,
                 !.content = content]

Arrive(s, f) ==
    /\ Free(s)
    /\ served < MaxRequests
    /\ served' = served + 1
    /\ reqs' = [reqs EXCEPT ![s] = f]
    /\ UNCHANGED <<articles, comments, marks, index, faults, cool, others>>

StartWriteArticle(s) ==
    /\ Len(articles) + InFlight("write_article") < MaxArticles
    /\ \E u \in Users, bid \in BoardIds, b \in WriteBodies :
          Arrive(s, Frame("write_article", u, bid, NULL, NULL, b.title, b.content))

StartEditArticle(s) ==
    \E u \in Users, aid \in 1..MaxArticles, b \in EditBodies :
       Arrive(s, Frame("edit_article", u, 1, aid, NULL, b.title, b.content))

StartDeleteArticle(s) ==
    \E u \in Users, aid \in 1..MaxArticles :
       Arrive(s, Frame("delete_article", u, 1, aid, NULL, NoText, NoText))

StartWriteComment(s) ==
    /\ Len(comments) + InFlight("write_comment") < MaxComments
    /\ \E u \in Users, aid \in 1..MaxArticles :
          Arrive(s, Frame("write_comment", u, 1, aid, NULL, NoText, "a"))

StartEditComment(s) ==
    \E u \in Users, aid \in 1..MaxArticles, cid \in 1..MaxComments :
       Arrive(s, Frame("edit_comment", u, 1, aid, cid, NoText, "b"))

StartDeleteComment(s) ==
    \E u \in Users, aid \in 1..MaxArticles, cid \in 1..MaxComments :
       Arrive(s, Frame("delete_comment", u, 1, aid, cid, NoText, NoText))

StartGetArticles(s) ==
    \E last_id \in ListCursors, first_id \in ListCursors :
       Arrive(s, [Frame("get_articles", NULL, 1, NULL, NULL, NoText, NoText)
                    EXCEPT !.last_id = last_id, !.first_id = first_id])

StartGetArticle(s) ==
    \E aid \in 1..MaxArticles :
       Arrive(s, Frame("get_article", NULL, 1, aid, NULL, NoText, NoText))

StartSearchArticles(s) ==
    \E keyword \in Texts :
       Arrive(s, Frame("search_articles", NULL, 1, NULL, NULL, NoText, keyword))

\* The response has been sent: the frame is gone.
Return(s) ==
    /\ reqs[s].pc = "done"
    /\ reqs' = [reqs EXCEPT ![s] = Idle]
    /\ UNCHANGED <<articles, comments, marks, index, served, faults, cool, others>>

(***************************************************************************)
(* ch03/routers/article.py                                                 *)
(***************************************************************************)
NewArticle(r) ==
    [title |-> r.title, content |-> r.content, author_id |-> r.user,
     board_id |-> r.board_id, is_deleted |-> FALSE]

\* session.refresh(article): the frame's object takes the row's current columns.
Refreshed(r) ==
    [r EXCEPT !.row_title = articles[r.article_id].title,
              !.row_content = articles[r.article_id].content]

\* _index_article is awaited bare: its exception is the handler's.
IndexArticle(s, r) ==
    \/ /\ index' = IndexPut(IndexBody(r.article_id, r.row_title, r.row_content,
                                      articles[r.article_id].board_id,
                                      articles[r.article_id].author_id))
       /\ Advance(s, r)
    \/ /\ index' = index
       /\ Fail(s, r)

write_article(s) ==
    LET r == reqs[s] IN
    /\ r.op = "write_article"
    /\ \/ /\ r.pc = "board"
          /\ IF ActiveBoard(r.board_id) THEN Advance(s, r) ELSE Finish(s, r, 404)
          /\ UNCHANGED <<articles, comments, marks, index>>
       \/ /\ r.pc = "check"
          /\ CheckRateLimit(s, r)
          /\ UNCHANGED <<articles, comments, marks, index>>
       \/ /\ r.pc = "commit"
          /\ \/ /\ articles' = Append(articles, NewArticle(r))
                /\ comments' = comments
                /\ Advance(s, [r EXCEPT !.committed = TRUE,
                                        !.article_id = Len(articles) + 1,
                                        !.row_title = r.title,
                                        !.row_content = r.content])
             \/ CommitFails(s, r)
          /\ UNCHANGED <<marks, index>>
       \/ /\ r.pc = "refresh"
          /\ Advance(s, Refreshed(r))
          /\ UNCHANGED <<articles, comments, marks, index>>
       \/ /\ r.pc = "setex"
          /\ SetRateLimit(s, r)
          /\ UNCHANGED <<articles, comments, index>>
       \/ /\ r.pc = "index"
          /\ IndexArticle(s, r)
          /\ UNCHANGED <<articles, comments, marks>>

\* The ownership rule of the edit and delete handlers.
\* A variant of the ownership rule: an admin passes as the owner.
IsOwner_or_admin(author_id, u) == author_id = u \/ Role(u) = "admin"

IsOwner(author_id, u) == author_id = u

\* The SELECT of edit_article / delete_article and the checks on its result:
\* the status to raise, or 0 to go on.
ArticleGate(r) ==
    IF ~ActiveArticle(r.article_id, r.board_id) THEN 404
    ELSE IF ~IsOwner(articles[r.article_id].author_id, r.user) THEN 403
    ELSE 0

\* The columns session.commit() writes for an edited article: those assigned a
\* value other than the loaded one.
EditedArticle(row, r) ==
    [row EXCEPT !.title = IF r.dirty_title THEN r.title ELSE @,
                !.content = IF r.dirty_content THEN r.content ELSE @]

\* A variant of the test that takes every body for a change.
NoChanges_never(r) == FALSE

\* body.title is None and body.content is None
NoChanges(r) == r.title = NoText /\ r.content = NoText

edit_article(s) ==
    LET r == reqs[s] IN
    /\ r.op = "edit_article"
    /\ \/ /\ r.pc = "check"
          /\ CheckRateLimit(s, r)
          /\ UNCHANGED <<articles, comments, marks, index>>
       \/ /\ r.pc = "select"
          /\ IF ArticleGate(r) # 0
             THEN Finish(s, r, ArticleGate(r))
             ELSE LET row == articles[r.article_id]
                      l == [r EXCEPT !.row_title = row.title,
                                     !.row_content = row.content]
                  IN IF NoChanges(r)
                     THEN Finish(s, l, 200)
                     ELSE Advance(s, [l EXCEPT
                             !.row_title = IF r.title # NoText THEN r.title ELSE @,
                             !.row_content = IF r.content # NoText THEN r.content ELSE @,
                             !.dirty_title = r.title # NoText /\ r.title # row.title,
                             !.dirty_content = r.content # NoText
                                               /\ r.content # row.content])
          /\ UNCHANGED <<articles, comments, marks, index>>
       \/ /\ r.pc = "commit"
          /\ \/ /\ articles' = [articles EXCEPT ![r.article_id] = EditedArticle(@, r)]
                /\ comments' = comments
                /\ Advance(s, [r EXCEPT !.committed = TRUE])
             \/ CommitFails(s, r)
          /\ UNCHANGED <<marks, index>>
       \/ /\ r.pc = "refresh"
          /\ Advance(s, Refreshed(r))
          /\ UNCHANGED <<articles, comments, marks, index>>
       \/ /\ r.pc = "setex"
          /\ SetRateLimit(s, r)
          /\ UNCHANGED <<articles, comments, index>>
       \/ /\ r.pc = "index"
          /\ IndexArticle(s, r)
          /\ UNCHANGED <<articles, comments, marks>>

delete_article(s) ==
    LET r == reqs[s] IN
    /\ r.op = "delete_article"
    /\ \/ /\ r.pc = "check"
          /\ CheckRateLimit(s, r)
          /\ UNCHANGED <<articles, comments, marks, index>>
       \/ /\ r.pc = "select"
          /\ IF ArticleGate(r) # 0 THEN Finish(s, r, ArticleGate(r)) ELSE Advance(s, r)
          /\ UNCHANGED <<articles, comments, marks, index>>
       \/ /\ r.pc = "commit"
          /\ \/ /\ articles' = [articles EXCEPT ![r.article_id] = soft_delete(@)]
                /\ comments' = comments
                /\ Advance(s, [r EXCEPT !.committed = TRUE])
             \/ CommitFails(s, r)
          /\ UNCHANGED <<marks, index>>
       \/ /\ r.pc = "setex"
          /\ SetRateLimit(s, r)
          /\ UNCHANGED <<articles, comments, index>>
       \/ /\ r.pc = "unindex"      \* _delete_index swallows the client's exception
          /\ \/ /\ index' = IndexDelete(r.article_id)
                /\ Advance(s, r)
             \/ /\ index' = index
                /\ Fault
                /\ Respond(s, r, SuccessStatus(r.op))
          /\ UNCHANGED <<articles, comments, marks>>

(***************************************************************************)
(* ch03/routers/comment.py                                                 *)
(***************************************************************************)
NewComment(r) ==
    [content |-> r.content, author_id |-> r.user, article_id |-> r.article_id,
     is_deleted |-> FALSE]

\* _get_active_article, then the SELECT of the comment and the checks on it: the
\* status to raise, or 0 to go on.
CommentGate(r) ==
    IF ~ActiveArticle(r.article_id, r.board_id) THEN 404
    ELSE IF ~ActiveComment(r.comment_id, r.article_id) THEN 404
    ELSE IF ~IsOwner(comments[r.comment_id].author_id, r.user) THEN 403
    ELSE 0

RefreshedComment(r) == [r EXCEPT !.row_content = comments[r.comment_id].content]

write_comment(s) ==
    LET r == reqs[s] IN
    /\ r.op = "write_comment"
    /\ \/ /\ r.pc = "check"
          /\ CheckRateLimit(s, r)
          /\ UNCHANGED <<articles, comments, marks, index>>
       \/ /\ r.pc = "select"
          /\ IF ActiveArticle(r.article_id, r.board_id)
             THEN Advance(s, r)
             ELSE Finish(s, r, 404)
          /\ UNCHANGED <<articles, comments, marks, index>>
       \/ /\ r.pc = "commit"
          /\ \/ /\ comments' = Append(comments, NewComment(r))
                /\ articles' = articles
                /\ Advance(s, [r EXCEPT !.committed = TRUE,
                                        !.comment_id = Len(comments) + 1,
                                        !.row_content = r.content])
             \/ CommitFails(s, r)
          /\ UNCHANGED <<marks, index>>
       \/ /\ r.pc = "refresh"
          /\ Advance(s, RefreshedComment(r))
          /\ UNCHANGED <<articles, comments, marks, index>>
       \/ /\ r.pc = "setex"
          /\ SetRateLimit(s, r)
          /\ UNCHANGED <<articles, comments, index>>

edit_comment(s) ==
    LET r == reqs[s] IN
    /\ r.op = "edit_comment"
    /\ \/ /\ r.pc = "check"
          /\ CheckRateLimit(s, r)
          /\ UNCHANGED <<articles, comments, marks, index>>
       \/ /\ r.pc = "select"
          /\ IF CommentGate(r) # 0
             THEN Finish(s, r, CommentGate(r))
             ELSE Advance(s, [r EXCEPT
                     !.row_content = r.content,
                     !.dirty_content = r.content # comments[r.comment_id].content])
          /\ UNCHANGED <<articles, comments, marks, index>>
       \/ /\ r.pc = "commit"
          /\ \/ /\ comments' = [comments EXCEPT ![r.comment_id].content =
                                   IF r.dirty_content THEN r.content ELSE @]
                /\ articles' = articles
                /\ Advance(s, [r EXCEPT !.committed = TRUE])
             \/ CommitFails(s, r)
          /\ UNCHANGED <<marks, index>>
       \/ /\ r.pc = "refresh"
          /\ Advance(s, RefreshedComment(r))
          /\ UNCHANGED <<articles, comments, marks, index>>
       \/ /\ r.pc = "setex"
          /\ SetRateLimit(s, r)
          /\ UNCHANGED <<articles, comments, index>>

delete_comment(s) ==
    LET r == reqs[s] IN
    /\ r.op = "delete_comment"
    /\ \/ /\ r.pc = "check"
          /\ CheckRateLimit(s, r)
          /\ UNCHANGED <<articles, comments, marks, index>>
       \/ /\ r.pc = "select"
          /\ IF CommentGate(r) # 0 THEN Finish(s, r, CommentGate(r)) ELSE Advance(s, r)
          /\ UNCHANGED <<articles, comments, marks, index>>
       \/ /\ r.pc = "commit"
          /\ \/ /\ comments' = [comments EXCEPT ![r.comment_id] = soft_delete(@)]
                /\ articles' = articles
                /\ Advance(s, [r EXCEPT !.committed = TRUE])
             \/ CommitFails(s, r)
          /\ UNCHANGED <<marks, index>>
       \/ /\ r.pc = "setex"
          /\ SetRateLimit(s, r)
          /\ UNCHANGED <<articles, comments, index>>

(***************************************************************************)
(* The read paths of ch03/routers/article.py.                              *)
(***************************************************************************)
get_articles(s) ==
    LET r == reqs[s] IN
    /\ r.op = "get_articles"
    /\ r.pc = "query"
    /\ Advance(s, [r EXCEPT !.rows = get_articles_rows(articles, r.board_id,
                                                       r.last_id, r.first_id)])
    /\ UNCHANGED <<articles, comments, marks, index>>

get_article(s) ==
    LET r == reqs[s] IN
    /\ r.op = "get_article"
    /\ r.pc = "query"
    /\ IF ActiveArticle(r.article_id, r.board_id)
       THEN Advance(s, [r EXCEPT !.rows = <<r.article_id>>,
                                 !.row_comments = ArticleComments(r.article_id)])
       ELSE Finish(s, r, 404)
    /\ UNCHANGED <<articles, comments, marks, index>>

search_articles(s) ==
    LET r == reqs[s] IN
    /\ r.op = "search_articles"
    /\ \/ /\ r.pc = "search"
          /\ LET hits == SearchHits(r.content, r.board_id) IN
             IF hits = {}
             THEN Finish(s, r, 200)
             ELSE Advance(s, [r EXCEPT !.hits = hits])
       \/ /\ r.pc = "query"
          /\ Advance(s, [r EXCEPT !.rows =
                           DescLimit(SearchRows(r.hits, r.board_id), MaxArticles)])
    /\ UNCHANGED <<articles, comments, marks, index>>

(***************************************************************************)
(* Time passes: every key's remaining TTL shrinks; a key at 0 is gone.     *)
(***************************************************************************)
Decay(n) == Max(0, n - TickStep)

Tick ==
    /\ \E k \in Keys : marks[k] > 0 \/ cool[k].any > 0
    /\ marks' = [k \in Keys |-> Decay(marks[k])]
    /\ cool' = [k \in Keys |-> [any |-> Decay(cool[k].any),
                                write |-> Decay(cool[k].write)]]
    /\ reqs' = [s \in Slots |-> [reqs[s] EXCEPT !.window = Decay(@)]]
    /\ UNCHANGED <<articles, comments, index, served, faults, others>>

(***************************************************************************)
(* The system some time after the member wrote the first article of board  *)
(* 1: its row and its document exist, the key of that write has expired.   *)
(***************************************************************************)
FirstArticle ==
    [title |-> "a", content |-> "a", author_id |-> 2, board_id |-> 1,
     is_deleted |-> FALSE]

\* No request in flight, no key, no fault so far.
Quiet ==
    /\ marks = [k \in Keys |-> 0]
    /\ reqs = [s \in Slots |-> Idle]
    /\ served = 0
    /\ faults = 0
    /\ cool = [k \in Keys |-> [any |-> 0, write |-> 0]]

Init ==
    /\ articles = <<FirstArticle>>
    /\ comments = <<>>
    /\ index = {IndexBody(1, "a", "a", 1, 2)}
    /\ Quiet
    /\ NoSide
    /\ NoAds
    /\ NoMessages
    /\ NoStats
    /\ NoUsers

Start(s) ==
    \/ StartWriteArticle(s)
    \/ StartEditArticle(s)
    \/ StartDeleteArticle(s)
    \/ StartWriteComment(s)
    \/ StartEditComment(s)
    \/ StartDeleteComment(s)
    \/ StartGetArticles(s)
    \/ StartGetArticle(s)
    \/ StartSearchArticles(s)

Step(s) ==
    \/ write_article(s)
    \/ edit_article(s)
    \/ delete_article(s)
    \/ write_comment(s)
    \/ edit_comment(s)
    \/ delete_comment(s)
    \/ get_articles(s)
    \/ get_article(s)
    \/ search_articles(s)
    \/ Return(s)

(***************************************************************************)
(* Spec: requests handled concurrently, all within one cooldown window     *)
(* (the clock stands still, so no key expires).                            *)
(***************************************************************************)
Next == \E s \in Slots : Start(s) \/ Step(s)

Spec == Init /\ [][Next]_vars

(***************************************************************************)
(* SpecSeq: requests handled one after the other, with time passing        *)
(* between and during them.                                                *)
(***************************************************************************)
NextSeq == Tick \/ Start(1) \/ Step(1)

SpecSeq == Init /\ [][NextSeq]_vars

(***************************************************************************)
(* SpecPage: get_articles over the tables of a long-lived board.  The      *)
(* table holds up to MaxPageArticles rows written over time, of which at   *)
(* most MaxHidden were written to the other board or deleted since.        *)
(***************************************************************************)
PageRow(board_id, is_deleted) ==
    [title |-> "a", content |-> "a", author_id |-> 2, board_id |-> board_id,
     is_deleted |-> is_deleted]

PageCursors == {NULL} \cup (1..(MaxPageArticles + 1))

InitPage ==
    /\ \E n \in 0..MaxPageArticles :
       \E H \in SUBSET (1..n) :
          /\ Cardinality(H) <= MaxHidden
          /\ \E hidden \in [H -> {"board", "deleted"}] :
                /\ articles = [i \in 1..n |->
                                 IF i \notin H THEN PageRow(1, FALSE)
                                 ELSE IF hidden[i] = "board" THEN PageRow(2, FALSE)
                                 ELSE PageRow(1, TRUE)]
                /\ index = {IndexBody(i, "a", "a", IF hidden[i] = "board" THEN 2 ELSE 1, 2)
                               : i \in {j \in H : hidden[j] = "board"}}
                           \cup {IndexBody(i, "a", "a", 1, 2) : i \in (1..n) \ H}
    /\ comments = <<>>
    /\ Quiet
    /\ NoSide
    /\ NoAds
    /\ NoMessages
    /\ NoStats
    /\ NoUsers

StartGetArticlesPage ==
    \E last_id \in PageCursors, first_id \in PageCursors :
       Arrive(1, [Frame("get_articles", NULL, 1, NULL, NULL, NoText, NoText)
                    EXCEPT !.last_id = last_id, !.first_id = first_id])

NextPage == StartGetArticlesPage \/ get_articles(1)

SpecPage == InitPage /\ [][NextPage]_vars

(***************************************************************************)
(* The handlers of ch03/routers/advertisement.py and                       *)
(* ch05/routers/advertisement.py.                                          *)
(***************************************************************************)
AdArrive(f) ==
    /\ adreq.op = "idle"
    /\ served < MaxRequests
    /\ served' = served + 1
    /\ adreq' = f
    /\ UNCHANGED <<chapter, ads, cache, views, last, boardVars>>

AdGoto(r) ==
    /\ adreq' = r
    /\ UNCHANGED <<chapter, served, last, boardVars>>

\* The handler returns or raises: an answered get_ad becomes the latest read.
AdFinish(r, st) ==
    /\ adreq' = [r EXCEPT !.pc = "done", !.status = st,
                          !.prev = IF r.op = "get_ad" THEN last[r.ad_id] ELSE @]
    /\ last' = IF r.op = "get_ad" /\ st = 200
               THEN [last EXCEPT ![r.ad_id] = r.payload]
               ELSE last
    /\ UNCHANGED <<chapter, served, boardVars>>

StartWriteAd ==
    /\ Len(ads) < MaxAds
    /\ \E u \in Users, start_date \in {NULL, 1} :
          AdArrive([AdIdle EXCEPT !.op = "write_ad", !.pc = "commit", !.user = u,
                                  !.start_date = start_date])

StartGetAd ==
    \E u \in {NULL, 2}, id \in AdIds :
       AdArrive([AdIdle EXCEPT !.op = "get_ad", !.pc = "get", !.user = u, !.ad_id = id])

\* A variant of the role that takes every caller for an admin.
CurrentRole_admin(u) == "admin"

\* current_user.role: the column of the caller's row; the role of the fixture
\* where the user table is left out.
CurrentRole(u) == IF u \in 1..Len(users) THEN users[u].role ELSE Role(u)

write_ad ==
    LET r == adreq IN
    /\ r.op = "write_ad"
    /\ \/ /\ r.pc = "commit"
          /\ IF CurrentRole(r.user) # "admin"
             THEN /\ AdFinish(r, 403)
                  /\ ads' = ads
             ELSE /\ ads' = Append(ads, [title |-> "a", is_deleted |-> FALSE,
                                         start_date |-> r.start_date, created_at |-> 1])
                  /\ AdGoto([r EXCEPT !.pc = "refresh", !.ad_id = Len(ads) + 1])
          /\ UNCHANGED <<cache, views>>
       \/ /\ r.pc = "refresh"
          /\ AdGoto([r EXCEPT !.pc = "set", !.row = ads[r.ad_id]])
          /\ UNCHANGED <<ads, cache, views>>
       \/ /\ r.pc = "set"
          /\ cache' = CachePut(r.ad_id, r.row)
          /\ AdFinish([r EXCEPT !.stored = TRUE,
                                !.payload = AdResponseOfRow(r.ad_id, r.row)], 201)
          /\ UNCHANGED <<ads, views>>

\* current_user.username: the column of the caller's row; where the user table
\* is left out the master admin is user 1, the member user 2.
UsernameOf(u) ==
    IF u \in 1..Len(users) THEN users[u].username
    ELSE IF u = 1 THEN "admin" ELSE "testmember"

\* username = current_user.username if current_user else None
ViewUsername(current_user) ==
    IF current_user # NULL THEN UsernameOf(current_user) ELSE NoText

\* A variant of get_ad that returns the response without recording the view.
AdServe_unrecorded(r) == AdFinish(r, 200)

\* Chapter 3 returns the response; chapter 5 goes on to record the view.
AdServe(r) ==
    IF chapter = 5 THEN AdGoto([r EXCEPT !.pc = "history"]) ELSE AdFinish(r, 200)

\* A variant of the cache test that also wants the row to be active.
CacheHit_live(id) == cache[id].present /\ ActiveAd(id)

\* cached = await valkey.get(key); if cached:
CacheHit(id) == cache[id].present

get_ad ==
    LET r == adreq IN
    /\ r.op = "get_ad"
    /\ \/ /\ r.pc = "get"
          /\ IF CacheHit(r.ad_id)
             THEN AdServe([r EXCEPT !.hit = TRUE, !.cached = cache[r.ad_id].value,
                             !.payload = AdResponseOfDict(json_loads(cache[r.ad_id].value))])
             ELSE AdGoto([r EXCEPT !.pc = "select"])
          /\ UNCHANGED <<ads, cache, views>>
       \/ /\ r.pc = "select"
          /\ IF ActiveAd(r.ad_id)
             THEN AdGoto([r EXCEPT !.pc = "set", !.queried = TRUE, !.row = ads[r.ad_id]])
             ELSE AdFinish([r EXCEPT !.queried = TRUE], 404)
          /\ UNCHANGED <<ads, cache, views>>
       \/ /\ r.pc = "set"
          /\ cache' = CachePut(r.ad_id, r.row)
          /\ AdServe([r EXCEPT !.stored = TRUE,
                               !.payload = AdResponseOfRow(r.ad_id, r.row)])
          /\ UNCHANGED <<ads, views>>
       \/ /\ r.pc = "history"
          /\ views' = Append(views, [ad_id |-> r.ad_id,
                                     username |-> ViewUsername(r.user)])
          /\ AdFinish(r, 200)
          /\ UNCHANGED <<ads, cache>>

\* click_ad is a route of chapter 5.
StartClickAd ==
    /\ chapter = 5
    /\ \E u \in {NULL, 2}, id \in AdIds :
          AdArrive([AdIdle EXCEPT !.op = "click_ad", !.pc = "select", !.user = u,
                                  !.ad_id = id])

click_ad ==
    LET r == adreq IN
    /\ r.op = "click_ad"
    /\ \/ /\ r.pc = "select"
          /\ IF ActiveAd(r.ad_id)
             THEN AdGoto([r EXCEPT !.pc = "insert", !.queried = TRUE, !.row = ads[r.ad_id]])
             ELSE AdFinish([r EXCEPT !.queried = TRUE], 404)
          /\ UNCHANGED <<ads, cache, views>>
       \/ /\ r.pc = "insert"
          /\ clicks' = Append(clicks, [ad_id |-> r.ad_id,
                                       username |-> ViewUsername(r.user)])
          /\ adreq' = [r EXCEPT !.pc = "done", !.status = 200]
          /\ UNCHANGED <<chapter, ads, cache, views, last, coreVars, msgVars, statVars,
                         userVars, derived, mirror>>

AdReturn ==
    /\ adreq.pc = "done"
    /\ adreq' = AdIdle
    /\ UNCHANGED <<chapter, ads, cache, views, last, served, boardVars>>

\* The key ad:{id} goes: its TTL runs out (chapter 5) ...
AdExpire(id) ==
    /\ cache[id].present
    /\ cache[id].ttl # NO_TTL
    /\ cache' = [cache EXCEPT ![id] = NoEntry]
    /\ UNCHANGED <<chapter, ads, adreq, views, last, served, boardVars>>

\* ... or Valkey drops it (eviction, flush, restart).
AdEvict(id) ==
    /\ cache[id].present
    /\ cache[id].ttl = NO_TTL
    /\ cache' = [cache EXCEPT ![id] = NoEntry]
    /\ UNCHANGED <<chapter, ads, adreq, views, last, served, boardVars>>

\* An operator soft-deletes the row in the database; no handler does. This is a
\* write to the advertisement: reads before and after it are not compared.
AdSoftDeleted(id) ==
    /\ ActiveAd(id)
    /\ ads' = [ads EXCEPT ![id] = soft_delete(@)]
    /\ last' = [last EXCEPT ![id] = NoPayload]
    /\ UNCHANGED <<chapter, cache, adreq, views, served, boardVars>>

InitAd ==
    /\ articles = <<FirstArticle>>
    /\ comments = <<>>
    /\ index = {IndexBody(1, "a", "a", 1, 2)}
    /\ Quiet
    /\ NoSide
    /\ chapter \in {3, 5}
    /\ ads = <<>>
    /\ cache = [id \in AdIds |-> NoEntry]
    /\ adreq = AdIdle
    /\ views = <<>>
    /\ last = [id \in AdIds |-> NoPayload]
    /\ NoMessages
    /\ NoStats
    /\ NoUsers

NextAd ==
    \/ StartWriteAd
    \/ StartGetAd
    \/ write_ad
    \/ get_ad
    \/ StartClickAd
    \/ click_ad
    \/ AdReturn
    \/ \E id \in AdIds : AdExpire(id)
    \/ \E id \in AdIds : AdEvict(id)
    \/ \E id \in AdIds : AdSoftDeleted(id)

SpecAd == InitAd /\ [][NextAd]_vars

(***************************************************************************)
(* Messages: on_message of ch05/consumer.py delivers the queue's message   *)
(* to process_message of ch05/main.py.  The tables do not change while the *)
(* message is in the queue.                                                *)
(***************************************************************************)
\* A JSON object: the keys it has and their values (NoText, NULL for a key it
\* does not have).
MsgDict(keys, type, comment_id, article_id, user_id) ==
    [keys |-> keys, type |-> type, comment_id |-> comment_id,
     article_id |-> article_id, user_id |-> user_id]

\* message.body: the JSON text the publisher sent.
MsgBodies ==
    {json_dumps(MsgDict({"type", "comment_id"}, "write_comment", c, NULL, NULL))
        : c \in 1..(MaxMsgComments + 1)}
    \cup {json_dumps(MsgDict({"type", "article_id", "user_id"}, "write_article", NULL, a, u))
             : a \in {1, 2}, u \in Users}
    \cup {json_dumps(MsgDict({"type"}, "other", NULL, NULL, NULL))}

\* Valid JSON whose type is none of the two, or which has no type.
UnknownBodies ==
    {json_dumps(MsgDict({"type"}, "other", NULL, NULL, NULL)),
     json_dumps(MsgDict({}, NoText, NULL, NULL, NULL)),
     json_dumps(MsgDict({"article_id", "user_id"}, NoText, NULL, 1, 2)),
     json_dumps(MsgDict({"type", "comment_id"}, "other", 1, NULL, NULL))}

\* A body that is not JSON text.
NotJson == <<"text", MsgDict({}, NoText, NULL, NULL, NULL)>>

\* A body that is not JSON, or that lacks a key its branch subscripts.
BadBodies ==
    {NotJson}
    \cup {json_dumps(MsgDict({"type", "user_id"}, "write_article", NULL, NULL, u))
             : u \in Users}
    \cup {json_dumps(MsgDict({"type", "article_id"}, "write_article", NULL, a, NULL))
             : a \in {1, 2}}
    \cup {json_dumps(MsgDict({"type"}, "write_comment", NULL, NULL, NULL)),
          json_dumps(MsgDict({"type", "article_id"}, "write_comment", NULL, 1, NULL))}

\* The payload has no body field.
NoBody == <<>>

\* A variant of the request model: body is optional.
Validates_any(body) == TRUE

\* MessagePayload: body is a required str.
Validates(body) == body # NoBody

\* json.loads(payload.body) returns.
IsJson(text) == Len(text) = 2 /\ text[1] = "json"

\* body.get("type")
msg_type(body) == IF "type" \in body.keys THEN body.type ELSE NoText

\* A variant of the subscripts that reads a missing key as None (body.get).
HasKeys_any(body) == TRUE

\* The subscripts body["..."] of the branch of a type find their keys.
HasKeys(body) ==
    CASE msg_type(body) = "write_article" -> {"article_id", "user_id"} \subseteq body.keys
      [] msg_type(body) = "write_comment" -> "comment_id" \in body.keys
      [] OTHER -> TRUE

\* A variant of the guarded add without the guard.
set_add_any(S, x) == S \cup {x}

\* if x is not None: user_ids.add(x)
set_add(S, x) == IF x # NULL THEN S \cup {x} ELSE S

RECURSIVE add_all(_, _)
add_all(S, xs) ==
    IF xs = {} THEN S
    ELSE LET x == CHOOSE y \in xs : TRUE IN add_all(set_add(S, x), xs \ {x})

\* A variant of the SELECT without the is_deleted filter.
RowActive_any(table, id) == id \in 1..Len(table)

\* SELECT ... WHERE id = :id AND is_deleted = false, without a board.
RowActive(table, id) == id \in 1..Len(table) /\ table[id].is_deleted = FALSE

\* The comments of the third SELECT of the write_comment branch.
OtherComments(aid) ==
    {k \in CommentIds : comments[k].article_id = aid /\ comments[k].is_deleted = FALSE}

Notification(title, content, uid) ==
    [title |-> title, content |-> content, userId |-> uid, isRead |-> FALSE,
     delivery |-> queue.deliveries]

\* A variant of the comparison: 500 itself is not taken for a server error.
ServerError_above(status) == status > 500

\* status_code >= 500
ServerError(status) == status >= 500

MsgFrame ==
    <<articles, comments, marks, index, reqs, served, cool, adVars, statVars, userVars,
      sideVars>>

\* The broker hands the message to on_message.
Receive ==
    /\ queue.state = "ready"
    /\ run.pc = "idle"
    /\ queue.deliveries < MaxDeliveries
    /\ queue' = [queue EXCEPT !.state = "unacked", !.deliveries = @ + 1]
    /\ run' = [RunIdle EXCEPT !.pc = "post", !.body = queue.body]
    /\ UNCHANGED <<notifications, faults, MsgFrame>>

\* A variant of the context manager: message.process() with its default
\* requeue=False rejects the message for good.
Requeue_drop(seen) ==
    /\ queue' = [queue EXCEPT !.state = "rejected", !.seen = seen]
    /\ run' = RunIdle

\* message.process(requeue=True) leaves by an exception: reject and requeue.
Requeue(seen) ==
    /\ queue' = [queue EXCEPT !.state = "ready", !.requeues = @ + 1, !.seen = seen]
    /\ run' = RunIdle

\* message.process(requeue=True) leaves normally: ack.
Ack(seen) ==
    /\ queue' = [queue EXCEPT !.state = "acked", !.acks = @ + 1, !.seen = seen]
    /\ run' = RunIdle

RunGoto(r) ==
    /\ run' = r
    /\ UNCHANGED <<queue, faults, MsgFrame>>

\* process_message returns "ok".
RunOk(r) == RunGoto([r EXCEPT !.pc = "response", !.status = 200])

\* The request is refused by the framework (422), or the handler raises an
\* exception that is not an HTTPException (500).
RunRaise(r, status) == RunGoto([r EXCEPT !.pc = "response", !.status = status])

\* insert_one raises: the answer is 500.
InsertFails(r) ==
    /\ Fault
    /\ run' = [r EXCEPT !.pc = "response", !.status = 500]
    /\ UNCHANGED <<queue, notifications, MsgFrame>>

process_message ==
    LET r == run
        body == json_loads(r.body)
    IN
    \/ /\ r.pc = "post"             \* the request arrives; up to the first await
       /\ IF ~Validates(r.body) THEN RunRaise(r, 422)
          ELSE IF ~IsJson(r.body) THEN RunRaise(r, 500)
          ELSE IF ~HasKeys(body) THEN RunRaise([r EXCEPT !.type = msg_type(body)], 500)
          ELSE IF msg_type(body) \in {"write_article", "write_comment"}
          THEN RunGoto([r EXCEPT !.pc = body.type, !.type = body.type,
                                 !.comment_id = body.comment_id,
                                 !.article_id = body.article_id])
          ELSE RunOk([r EXCEPT !.type = msg_type(body)])
       /\ UNCHANGED notifications
    \/ /\ r.pc = "write_article"    \* SELECT article
       /\ IF RowActive(articles, r.article_id)
          THEN RunGoto([r EXCEPT !.pc = "article_insert",
                                 !.content = articles[r.article_id].title,
                                 !.todo = {body.user_id}])
          ELSE RunOk(r)
       /\ UNCHANGED notifications
    \/ /\ r.pc = "article_insert"
       /\ \/ /\ notifications' = Append(notifications,
                     Notification("write_article", r.content, body.user_id))
             /\ RunOk([r EXCEPT !.todo = {}])
          \/ InsertFails(r)
    \/ /\ r.pc = "write_comment"    \* SELECT comment
       /\ IF RowActive(comments, r.comment_id)
          THEN RunGoto([r EXCEPT !.pc = "comment_article",
                                 !.content = comments[r.comment_id].content,
                                 !.article_id = comments[r.comment_id].article_id,
                                 !.user_ids = set_add({}, comments[r.comment_id].author_id)])
          ELSE RunOk(r)
       /\ UNCHANGED notifications
    \/ /\ r.pc = "comment_article"  \* SELECT article
       /\ RunGoto([r EXCEPT !.pc = "comment_others",
                            !.user_ids = IF RowActive(articles, r.article_id)
                                         THEN set_add(@, articles[r.article_id].author_id)
                                         ELSE @])
       /\ UNCHANGED notifications
    \/ /\ r.pc = "comment_others"   \* SELECT comments of the article
       /\ LET user_ids == add_all(r.user_ids,
                             {comments[k].author_id : k \in OtherComments(r.article_id)})
          IN IF user_ids = {}
             THEN RunOk([r EXCEPT !.user_ids = user_ids])
             ELSE RunGoto([r EXCEPT !.pc = "comment_insert", !.user_ids = user_ids,
                                    !.todo = user_ids])
       /\ UNCHANGED notifications
    \/ /\ r.pc = "comment_insert"   \* for uid in user_ids: insert_one
       /\ \/ \E uid \in r.todo :
                /\ notifications' = Append(notifications,
                        Notification("write_comment", r.content, uid))
                /\ IF r.todo = {uid}
                   THEN RunOk([r EXCEPT !.todo = {}])
                   ELSE RunGoto([r EXCEPT !.todo = @ \ {uid}])
          \/ InsertFails(r)

on_message ==
    \/ /\ run.pc = "post"           \* client.post raises before the request is sent
       /\ Fault
       /\ Requeue(Raised)
       /\ UNCHANGED <<notifications, MsgFrame>>
    \/ /\ run.pc = "response"       \* the response arrives
       /\ IF ServerError(run.status)
          THEN Requeue(Returned(run.status))
          ELSE Ack(Returned(run.status))
       /\ UNCHANGED <<notifications, faults, MsgFrame>>
    \/ /\ run.pc = "response"       \* the response is lost: client.post raises
       /\ Fault
       /\ Requeue(Raised)
       /\ UNCHANGED <<notifications, MsgFrame>>

MsgRow(author_id, article_id, is_deleted, content) ==
    [content |-> content, author_id |-> author_id, article_id |-> article_id,
     is_deleted |-> is_deleted]

MsgAuthors == Users \cup {NULL}

InitMsg ==
    /\ \E author_id \in MsgAuthors, is_deleted \in BOOLEAN :
          articles = <<[title |-> "t", content |-> "a", author_id |-> author_id,
                        board_id |-> 1, is_deleted |-> is_deleted]>>
    /\ \E n \in 0..MaxMsgComments :
       \E author \in [1..n -> MsgAuthors], article \in [1..n -> {1, 2}],
          deleted \in [1..n -> BOOLEAN] :
          comments = [k \in 1..n |->
                        MsgRow(author[k], article[k], deleted[k],
                               IF k = 1 THEN "a" ELSE "b")]
    /\ index = {}
    /\ Quiet
    /\ NoSide
    /\ NoAds
    /\ NoStats
    /\ NoUsers
    /\ \E body \in MsgBodies :
          queue = [body |-> body, state |-> "ready", deliveries |-> 0, acks |-> 0,
                   requeues |-> 0, seen |-> NotSeen]
    /\ run = RunIdle
    /\ notifications = <<>>

NextMsg == Receive \/ process_message \/ on_message

SpecMsg == InitMsg /\ [][NextMsg]_vars

(***************************************************************************)
(* SpecConsumer: on_message against any server at fastapi_url.  The POST   *)
(* is answered with one of Statuses whatever the server did.               *)
(***************************************************************************)
Statuses == {200, 201, 404, 422, 499, 500, 503}

\* response = await client.post(...): the server answers.  An answer of 500 or
\* above is one of the failures of the run.
client_post ==
    /\ run.pc = "post"
    /\ \E status \in Statuses :
          /\ run' = [run EXCEPT !.pc = "response", !.status = status]
          /\ IF status >= 500 THEN Fault ELSE UNCHANGED faults
    /\ UNCHANGED <<queue, notifications, MsgFrame>>

NextConsumer == Receive \/ client_post \/ on_message

SpecConsumer == InitMsg /\ [][NextConsumer]_vars

(***************************************************************************)
(* SpecStats: _get_history_stats of ch05/routers/advertisement.py over a   *)
(* history collection.  The collection holds the events of the past days;  *)
(* get_ad and click_ad go on recording events, dated now, while the        *)
(* statistics are computed.  A document is its fields (no _id).            *)
(***************************************************************************)
Usernames == {"alice", "bob"}
ClientIps == {"ip1", "ip2"}

\* The value of a field the document does not have.
NoField == "absent"

EventTimes == 1..(2 * DayLen)

Events ==
    [ad_id : AdIds, username : Usernames \cup {NoText, NoField},
     client_ip : ClientIps, created_date : EventTimes]

NoEvent == [ad_id |-> NULL, username |-> NoField, client_ip |-> NoField,
            created_date |-> 0]

\* today = now at 00:00; the range is <<today - 1 day, today>>.
_yesterday_range(now) ==
    LET today == now - (now % DayLen) IN <<today - DayLen, today>>

\* A variant of the window that includes its end.
InWindow_inclusive(t, start, end) == t >= start /\ t <= end

\* "created_date": {"$gte": start, "$lt": end}
InWindow(t, start, end) == t >= start /\ t < end

\* "username": {"$exists": True, "$ne": None}
HasUsername(e) == e.username # NoField /\ e.username # NoText

\* "$or": [{"username": {"$exists": False}}, {"username": None}]
Anonymous(e) == e.username = NoField \/ e.username = NoText

\* $group by ad_id with $addToSet of a field, $project to ad_id and the $size.
GroupProject(matched, field) ==
    {[ad_id |-> a,
      count |-> Cardinality({e[field] : e \in {x \in matched : x.ad_id = a}})]
        : a \in {e.ad_id : e \in matched}}

pipeline_user(coll, start, end) ==
    GroupProject({e \in coll : InWindow(e.created_date, start, end) /\ HasUsername(e)},
                 "username")

pipeline_anon(coll, start, end) ==
    GroupProject({e \in coll : InWindow(e.created_date, start, end) /\ Anonymous(e)},
                 "client_ip")

\* The count of ad_id in the results of a pipeline, 0 when it has no entry
\* (total.get(ad_id, 0)).
CountIn(results, ad_id) ==
    IF \E r \in results : r.ad_id = ad_id
    THEN (CHOOSE r \in results : r.ad_id = ad_id).count
    ELSE 0

\* The dict total after the two loops, as the list of AdHistoryResult.
Total(results_user, results_anon) ==
    {[ad_id |-> a, count |-> CountIn(results_user, a) + CountIn(results_anon, a)]
        : a \in {r.ad_id : r \in results_user \cup results_anon}}

StatFrame == <<coreVars, adVars, msgVars, userVars, sideVars>>

\* get_ad / click_ad record an event: insert_one with created_date = now.
record_event ==
    /\ Cardinality(history) < MaxEvents
    /\ \E ad_id \in AdIds, username \in Usernames \cup {NoText}, client_ip \in ClientIps :
          history' = history \cup {[ad_id |-> ad_id, username |-> username,
                                    client_ip |-> client_ip, created_date |-> clock]}
    /\ UNCHANGED <<clock, stats, StatFrame>>

\* GET /ads/history/view or /ads/history/click: up to the first await.
StartGetHistory ==
    /\ stats.pc = "idle"
    /\ LET range == _yesterday_range(clock) IN
       stats' = [StatsIdle EXCEPT !.pc = "user", !.start = range[1], !.end = range[2]]
    /\ UNCHANGED <<history, clock, StatFrame>>

_get_history_stats ==
    /\ \/ /\ stats.pc = "user"     \* aggregate(pipeline_user)
          /\ stats' = [stats EXCEPT
                         !.pc = "anon",
                         !.results_user = pipeline_user(history, stats.start, stats.end)]
       \/ /\ stats.pc = "anon"     \* aggregate(pipeline_anon), then the two loops
          /\ stats' = [stats EXCEPT
                         !.pc = "done",
                         !.result = Total(stats.results_user,
                                          pipeline_anon(history, stats.start, stats.end))]
    /\ UNCHANGED <<history, clock, StatFrame>>

StatsReturn ==
    /\ stats.pc = "done"
    /\ stats' = StatsIdle
    /\ UNCHANGED <<history, clock, StatFrame>>

InitStats ==
    /\ articles = <<FirstArticle>>
    /\ comments = <<>>
    /\ index = {IndexBody(1, "a", "a", 1, 2)}
    /\ Quiet
    /\ NoSide
    /\ NoAds
    /\ NoMessages
    /\ NoUsers
    /\ \E f \in [1..MaxEvents -> Events \cup {NoEvent}] :
          history = {f[i] : i \in 1..MaxEvents} \ {NoEvent}
    /\ clock \in {2 * DayLen, 2 * DayLen + 1}
    /\ stats = StatsIdle

NextStats == record_event \/ StartGetHistory \/ _get_history_stats \/ StatsReturn

SpecStats == InitStats /\ [][NextStats]_vars

(***************************************************************************)
(* SpecUser: the user router of ch01/routers/user.py with get_current_user *)
(* of ch01/dependencies/auth.py.  A request's SELECTs before its commit    *)
(* read one snapshot and are one step; session.commit() is another.        *)
(***************************************************************************)
UserRow(username, email, role) ==
    [username |-> username, email |-> email, role |-> role, is_deleted |-> FALSE]

\* A bearer token the server never signed.
Garbage == [sub |-> "admin", iat |-> 0]

SignUpNames == {"testmember", "new"}
SignUpEmails == {"testmember@test.com", "new@test.com"}
LoginNames == {"admin", "testmember", "new"}

\* jwt.encode of the payload: each login signs a token of its own.
create_access_token(username) ==
    [sub |-> username, iat |-> 1 + Cardinality({t \in tokens : t.sub = username})]

\* A variant of the lookup that finds no token revoked.
Blacklisted_never(token) == FALSE

\* select(JwtBlacklist).where(JwtBlacklist.token == token)
Blacklisted(token) == token \in blacklist

\* jwt.decode returns the payload: the signature is the server's and exp has not
\* passed.
Decodes(token) == token \in tokens /\ token \notin expired

\* select(User).where(User.username == username, User.is_deleted == False)
ActiveUserByName(username) ==
    {i \in 1..Len(users) : users[i].username = username /\ ~users[i].is_deleted}

\* select(User).where(User.id == user_id, User.is_deleted == False)
ActiveUser(user_id) == user_id \in 1..Len(users) /\ ~users[user_id].is_deleted

\* get_current_user: the status it raises, or 0 when it returns the user.
get_current_user(token) ==
    IF Blacklisted(token) THEN 401
    ELSE IF ~Decodes(token) THEN 401
    ELSE IF ActiveUserByName(token.sub) = {} THEN 401
    ELSE 0

\* The user get_current_user returns.
CurrentUser(token) == CHOOSE i \in ActiveUserByName(token.sub) : TRUE

\* A variant of the unique keys: only the username is unique.
Duplicate_username_only(username, email) ==
    \E i \in 1..Len(users) : users[i].username = username

\* The INSERT violates a unique key of the table (username, email), whatever
\* is_deleted says: IntegrityError.
Duplicate(username, email) ==
    \E i \in 1..Len(users) : users[i].username = username \/ users[i].email = email

\* A variant of the permission: everybody may delete.
MayDelete_anyone(current_user, user_id) == TRUE

\* not (current_user.id != user_id and current_user.role != UserRole.admin)
MayDelete(current_user, user_id) ==
    ~(current_user # user_id /\ users[current_user].role # "admin")

UserFrame ==
    <<articles, comments, marks, index, reqs, faults, cool, adVars, msgVars, statVars,
      sideVars>>

UserFree(s) == /\ ureqs[s].op = "idle"
               /\ \A t \in Slots : t < s => ureqs[t].op # "idle"

UserArrive(s, f) ==
    /\ UserFree(s)
    /\ served < MaxRequests
    /\ served' = served + 1
    /\ ureqs' = [ureqs EXCEPT ![s] = f]
    /\ UNCHANGED <<users, blacklist, tokens, expired, UserFrame>>

UserGoto(s, r) ==
    /\ ureqs' = [ureqs EXCEPT ![s] = r]
    /\ UNCHANGED <<served, UserFrame>>

UserFinish(s, r, st) == UserGoto(s, [r EXCEPT !.pc = "done", !.status = st])

Credentials == tokens \cup {Garbage}

StartSignUp(s) ==
    \E username \in SignUpNames, email \in SignUpEmails :
       UserArrive(s, [UserIdle EXCEPT !.op = "sign_up", !.pc = "commit",
                                      !.username = username, !.email = email])

StartLogin(s) ==
    /\ Cardinality(tokens) < MaxTokens
    /\ \E username \in LoginNames, password_ok \in BOOLEAN :
          UserArrive(s, [UserIdle EXCEPT !.op = "login", !.pc = "select",
                                         !.username = username,
                                         !.password_ok = password_ok])

StartDeleteUser(s) ==
    \E authorization \in Credentials, user_id \in 1..(Len(users) + 1) :
       UserArrive(s, [UserIdle EXCEPT !.op = "delete_user", !.pc = "select",
                                      !.authorization = authorization,
                                      !.user_id = user_id])

StartAuthenticated(s, op) ==
    \E authorization \in Credentials :
       UserArrive(s, [UserIdle EXCEPT !.op = op, !.pc = "select",
                                      !.authorization = authorization])

StartLogoutAll(s) == StartAuthenticated(s, "logout_all")
StartValidateToken(s) == StartAuthenticated(s, "validate_token")
StartGetUsers(s) == StartAuthenticated(s, "get_users")

UserReturn(s) ==
    /\ ureqs[s].pc = "done"
    /\ ureqs' = [ureqs EXCEPT ![s] = UserIdle]
    /\ UNCHANGED <<users, blacklist, tokens, expired, served, UserFrame>>

sign_up(s) ==
    LET r == ureqs[s] IN
    /\ r.op = "sign_up"
    /\ \/ /\ r.pc = "commit"     \* INSERT and COMMIT, or IntegrityError and rollback
          /\ IF Duplicate(r.username, r.email)
             THEN /\ users' = users
                  /\ UserFinish(s, r, 409)
             ELSE /\ users' = Append(users, UserRow(r.username, r.email, "member"))
                  /\ UserGoto(s, [r EXCEPT !.pc = "refresh", !.committed = TRUE,
                                           !.user_id = Len(users) + 1])
       \/ /\ r.pc = "refresh"
          /\ users' = users
          /\ UserFinish(s, r, 200)
    /\ UNCHANGED <<blacklist, tokens, expired>>

delete_user(s) ==
    LET r == ureqs[s] IN
    /\ r.op = "delete_user"
    /\ \/ /\ r.pc = "select"     \* get_current_user, the permission, the SELECT
          /\ users' = users
          /\ IF get_current_user(r.authorization) # 0
             THEN UserFinish(s, r, get_current_user(r.authorization))
             ELSE LET l == [r EXCEPT !.current_user = CurrentUser(r.authorization)] IN
                  IF ~MayDelete(l.current_user, r.user_id) THEN UserFinish(s, l, 403)
                  ELSE IF ~ActiveUser(r.user_id) THEN UserFinish(s, l, 404)
                  ELSE UserGoto(s, [l EXCEPT !.pc = "commit"])
       \/ /\ r.pc = "commit"     \* user.soft_delete(); session.commit()
          /\ users' = [users EXCEPT ![r.user_id] = soft_delete(@)]
          /\ UserFinish(s, [r EXCEPT !.committed = TRUE], 204)
    /\ UNCHANGED <<blacklist, tokens, expired>>

login(s) ==
    LET r == ureqs[s] IN
    /\ r.op = "login"
    /\ \/ /\ r.pc = "select"
          /\ tokens' = tokens
          /\ IF ActiveUserByName(r.username) = {} \/ ~r.password_ok
             THEN UserFinish(s, r, 401)
             ELSE UserGoto(s, [r EXCEPT !.pc = "commit"])
       \/ /\ r.pc = "commit"     \* last_login is committed, the token is signed
          /\ tokens' = tokens \cup {create_access_token(r.username)}
          /\ UserFinish(s, [r EXCEPT !.committed = TRUE,
                                     !.token = create_access_token(r.username)], 200)
    /\ UNCHANGED <<users, blacklist, expired>>

logout_all(s) ==
    LET r == ureqs[s] IN
    /\ r.op = "logout_all"
    /\ \/ /\ r.pc = "select"     \* get_current_user
          /\ blacklist' = blacklist
          /\ IF get_current_user(r.authorization) # 0
             THEN UserFinish(s, r, get_current_user(r.authorization))
             ELSE UserGoto(s, [r EXCEPT !.pc = "commit",
                                       !.current_user = CurrentUser(r.authorization)])
       \/ /\ r.pc = "commit"     \* INSERT and COMMIT; IntegrityError is swallowed
          /\ blacklist' = blacklist \cup {r.authorization}
          /\ UserFinish(s, [r EXCEPT !.committed = r.authorization \notin blacklist],
                        200)
    /\ UNCHANGED <<users, tokens, expired>>

validate_token(s) ==
    LET r == ureqs[s] IN
    /\ r.op = "validate_token"
    /\ r.pc = "select"
    /\ IF Blacklisted(r.authorization) THEN UserFinish(s, r, 403)
       ELSE IF ~Decodes(r.authorization) THEN UserFinish(s, r, 403)
       ELSE UserFinish(s, r, 200)
    /\ UNCHANGED <<users, blacklist, tokens, expired>>

get_users(s) ==
    LET r == ureqs[s] IN
    /\ r.op = "get_users"
    /\ r.pc = "select"
    /\ IF get_current_user(r.authorization) # 0
       THEN UserFinish(s, r, get_current_user(r.authorization))
       ELSE UserFinish(s, [r EXCEPT !.current_user = CurrentUser(r.authorization)], 200)
    /\ UNCHANGED <<users, blacklist, tokens, expired>>

\* Time passes: the exp of a token is reached.
TokenExpires ==
    /\ \E t \in tokens \ expired : expired' = expired \cup {t}
    /\ UNCHANGED <<users, blacklist, tokens, ureqs, served, UserFrame>>

\* The master admin (user 1) and the member (user 2) exist and are logged in.
InitUser ==
    /\ articles = <<FirstArticle>>
    /\ comments = <<>>
    /\ index = {IndexBody(1, "a", "a", 1, 2)}
    /\ Quiet
    /\ NoSide
    /\ NoAds
    /\ NoMessages
    /\ NoStats
    /\ users = <<UserRow("admin", "admin@test.com", "admin"),
                 UserRow("testmember", "testmember@test.com", "member")>>
    /\ blacklist = {}
    /\ tokens = {[sub |-> "admin", iat |-> 1], [sub |-> "testmember", iat |-> 1]}
    /\ expired = {}
    /\ ureqs = [s \in Slots |-> UserIdle]

UserStart(s) ==
    \/ StartSignUp(s)
    \/ StartLogin(s)
    \/ StartDeleteUser(s)
    \/ StartLogoutAll(s)
    \/ StartValidateToken(s)
    \/ StartGetUsers(s)

UserStep(s) ==
    \/ sign_up(s)
    \/ delete_user(s)
    \/ login(s)
    \/ logout_all(s)
    \/ validate_token(s)
    \/ get_users(s)
    \/ UserReturn(s)

NextUser == TokenExpires \/ \E s \in Slots : UserStart(s) \/ UserStep(s)

SpecUser == InitUser /\ [][NextUser]_vars

(***************************************************************************)
(* SpecTwin: ch01's article router (the rate limit derived from the rows'  *)
(* timestamps) is given the requests ch03's router handles (the rate limit *)
(* kept in expiring keys), one request at a time, with time passing        *)
(* between requests and no store call raising.  ch01's handler runs as a   *)
(* whole when ch03's has its response.  A timestamp is kept as its age in  *)
(* seconds, FIVE_MINUTES standing for every older one.                     *)
(***************************************************************************)
FIVE_MINUTES == 300     \* timedelta(minutes=5)

ArticleOps == {"write_article", "edit_article", "delete_article"}

\* BaseMixin: created_at and updated_at, each with server_default now().
DerivedRow(row, created_at, updated_at) ==
    [title |-> row.title, content |-> row.content, author_id |-> row.author_id,
     board_id |-> row.board_id, is_deleted |-> row.is_deleted,
     created_at |-> created_at, updated_at |-> updated_at]

Older(age) == Min(age + TickStep, FIVE_MINUTES)

\* A variant of the comparison: a timestamp exactly five minutes old still counts.
Recent_inclusive(age) == age <= FIVE_MINUTES

\* diff < timedelta(minutes=5)
Recent(age) == age < FIVE_MINUTES

\* select(Article).where(Article.author_id == author_id)
Authored(u) == {i \in 1..Len(derived) : derived[i].author_id = u}

\* ch01 _check_write_rate_limit: the row of the author with the latest created_at.
ch01_check_write_rate_limit(u) ==
    /\ Authored(u) # {}
    /\ LET latest == CHOOSE i \in Authored(u) :
                      \A j \in Authored(u) : derived[i].created_at <= derived[j].created_at
       IN Recent(derived[latest].created_at)

\* ch01 _check_edit_rate_limit: the row of the author with the latest updated_at.
ch01_check_edit_rate_limit(u) ==
    /\ Authored(u) # {}
    /\ LET latest == CHOOSE i \in Authored(u) :
                      \A j \in Authored(u) : derived[i].updated_at <= derived[j].updated_at
       IN Recent(derived[latest].updated_at)

Answer(status, table) == [status |-> status, table |-> table]

ch01_ActiveArticle(aid, bid) ==
    /\ aid \in 1..Len(derived)
    /\ derived[aid].board_id = bid
    /\ derived[aid].is_deleted = FALSE

\* The UPDATE of session.commit(): it is sent when a column changed, and
\* onupdate then sets updated_at to now().
Updated(row, new) == IF new = row THEN row ELSE [new EXCEPT !.updated_at = 0]

ch01_write_article(r) ==
    IF ~ActiveBoard(r.board_id) THEN Answer(404, derived)
    ELSE IF ch01_check_write_rate_limit(r.user) THEN Answer(429, derived)
    ELSE Answer(201, Append(derived, DerivedRow(NewArticle(r), 0, 0)))

ch01_edit_article(r) ==
    IF ch01_check_edit_rate_limit(r.user) THEN Answer(429, derived)
    ELSE IF ~ch01_ActiveArticle(r.article_id, r.board_id) THEN Answer(404, derived)
    ELSE IF derived[r.article_id].author_id # r.user THEN Answer(403, derived)
    ELSE IF r.title = NoText /\ r.content = NoText THEN Answer(200, derived)
    ELSE LET row == derived[r.article_id]
             new == [row EXCEPT !.title = IF r.title # NoText THEN r.title ELSE @,
                                !.content = IF r.content # NoText THEN r.content ELSE @]
         IN Answer(200, [derived EXCEPT ![r.article_id] = Updated(row, new)])

ch01_delete_article(r) ==
    IF ch01_check_edit_rate_limit(r.user) THEN Answer(429, derived)
    ELSE IF ~ch01_ActiveArticle(r.article_id, r.board_id) THEN Answer(404, derived)
    ELSE IF derived[r.article_id].author_id # r.user THEN Answer(403, derived)
    ELSE Answer(200, [derived EXCEPT ![r.article_id] = Updated(@, soft_delete(@))])

ch01_article(r) ==
    CASE r.op = "write_article" -> ch01_write_article(r)
      [] r.op = "edit_article" -> ch01_edit_article(r)
      [] r.op = "delete_article" -> ch01_delete_article(r)

\* ch03's edit_article committed without a changed column.
Unchanging(r) ==
    r.op = "edit_article" /\ r.committed /\ ~r.dirty_title /\ ~r.dirty_content

\* ch01's router answers the request ch03's router has just answered.  mirror
\* keeps its status and three facts of the history: recent, the caller has a row
\* created within the last five minutes; same, both routers gave this request one
\* status and wrote for it alike; agreed, they did so for every earlier request.
ch01_request ==
    LET r == reqs[1]
        a == ch01_article(r)
    IN /\ r.pc = "done"
       /\ r.op \in ArticleOps
       /\ mirror.count < served
       /\ derived' = a.table
       /\ mirror' = [count |-> served, status |-> a.status,
                     recent |-> \E i \in Authored(r.user) : Recent(derived[i].created_at),
                     agreed |-> mirror.agreed /\ mirror.same,
                     same |-> a.status = r.status /\ ~Unchanging(r)]
       /\ UNCHANGED <<coreVars, adVars, msgVars, statVars, userVars, clicks>>

\* Time passes between two requests: keys decay, timestamps age.
TwinTick ==
    /\ reqs[1].op = "idle"
    /\ \/ \E k \in Keys : marks[k] > 0
       \/ \E i \in 1..Len(derived) : Recent(derived[i].updated_at)
    /\ marks' = [k \in Keys |-> Decay(marks[k])]
    /\ cool' = [k \in Keys |-> [any |-> Decay(cool[k].any),
                                write |-> Decay(cool[k].write)]]
    /\ derived' = [i \in 1..Len(derived) |->
                     [derived[i] EXCEPT !.created_at = Older(@),
                                        !.updated_at = Older(@)]]
    /\ UNCHANGED <<articles, comments, index, reqs, served, faults, mirror, clicks,
                   adVars, msgVars, statVars, userVars>>

TwinReturn ==
    /\ mirror.count = served
    /\ Return(1)

InitTwin ==
    /\ articles = <<FirstArticle>>
    /\ comments = <<>>
    /\ index = {IndexBody(1, "a", "a", 1, 2)}
    /\ marks = [k \in Keys |-> 0]
    /\ reqs = [s \in Slots |-> Idle]
    /\ served = 0
    /\ faults = MaxFaults
    /\ cool = [k \in Keys |-> [any |-> 0, write |-> 0]]
    /\ derived = <<DerivedRow(FirstArticle, FIVE_MINUTES, FIVE_MINUTES)>>
    /\ mirror = MirrorIdle
    /\ clicks = <<>>
    /\ NoAds
    /\ NoMessages
    /\ NoStats
    /\ NoUsers

NextTwin ==
    \/ TwinTick
    \/ StartWriteArticle(1)
    \/ StartEditArticle(1)
    \/ StartDeleteArticle(1)
    \/ write_article(1)
    \/ edit_article(1)
    \/ delete_article(1)
    \/ ch01_request
    \/ TwinReturn

SpecTwin == InitTwin /\ [][NextTwin]_vars

(***************************************************************************)
(* SpecPost: clients post payloads to /internal/messages of ch05/main.py   *)
(* one after the other, as the tests of ch05/tests/test_messages.py do.    *)
(* No consumer runs, the queue is empty.                                   *)
(***************************************************************************)
\* The body field of a payload: any of the texts above, or none.
PayloadBodies == MsgBodies \cup UnknownBodies \cup BadBodies \cup {NoBody}

StartPost ==
    /\ run.pc = "idle"
    /\ served < MaxRequests
    /\ served' = served + 1
    /\ \E body \in PayloadBodies : run' = [RunIdle EXCEPT !.pc = "post", !.body = body]
    /\ UNCHANGED <<articles, comments, marks, index, reqs, faults, cool, queue,
                   notifications, adVars, statVars, userVars, sideVars>>

\* The response has been sent.
PostReturn ==
    /\ run.pc = "response"
    /\ run' = RunIdle
    /\ UNCHANGED <<queue, notifications, faults, MsgFrame>>

InitPost ==
    /\ \E is_deleted \in BOOLEAN :
          articles = <<[title |-> "t", content |-> "a", author_id |-> 1,
                        board_id |-> 1, is_deleted |-> is_deleted]>>
    /\ comments \in {<<>>, <<MsgRow(2, 1, FALSE, "a")>>}
    /\ index = {}
    /\ Quiet
    /\ NoSide
    /\ NoAds
    /\ NoMessages
    /\ NoStats
    /\ NoUsers

NextPost == StartPost \/ process_message \/ PostReturn

SpecPost == InitPost /\ [][NextPost]_vars

(***************************************************************************)
(* SpecPoison: the consumer and process_message as in SpecMsg, the queue's *)
(* message being any body a publisher can send, well-formed or not.        *)
(***************************************************************************)
InitPoison ==
    /\ \E author_id \in MsgAuthors, is_deleted \in BOOLEAN :
          articles = <<[title |-> "t", content |-> "a", author_id |-> author_id,
                        board_id |-> 1, is_deleted |-> is_deleted]>>
    /\ comments \in {<<>>, <<MsgRow(2, 1, FALSE, "a")>>}
    /\ index = {}
    /\ Quiet
    /\ NoSide
    /\ NoAds
    /\ NoStats
    /\ NoUsers
    /\ \E body \in MsgBodies \cup BadBodies :
          queue = [body |-> body, state |-> "ready", deliveries |-> 0, acks |-> 0,
                   requeues |-> 0, seen |-> NotSeen]
    /\ run = RunIdle
    /\ notifications = <<>>

\* The broker goes on delivering a message that is ready, and the consumer and
\* the server go on running.
SpecPoison == InitPoison /\ [][NextMsg]_vars /\ WF_vars(NextMsg)

(***************************************************************************)
(* SpecAdmin: the admin-only handlers, write_ad of                         *)
(* ch03/routers/advertisement.py and update_user_role of                   *)
(* ch01/routers/user.py, over one user table.  Requests of the user router *)
(* run concurrently; no store call raises.                                 *)
(***************************************************************************)
UserRoles == {"admin", "member"}

StartUpdateUserRole(s) ==
    \E authorization \in Credentials, user_id \in 1..(Len(users) + 1),
       role \in UserRoles :
       UserArrive(s, [UserIdle EXCEPT !.op = "update_user_role", !.pc = "select",
                                      !.authorization = authorization,
                                      !.user_id = user_id, !.role = role])

update_user_role(s) ==
    LET r == ureqs[s] IN
    /\ r.op = "update_user_role"
    /\ \/ /\ r.pc = "select"     \* get_current_user, the role check, the SELECT
          /\ users' = users
          /\ IF get_current_user(r.authorization) # 0
             THEN UserFinish(s, r, get_current_user(r.authorization))
             ELSE LET l == [r EXCEPT !.current_user = CurrentUser(r.authorization)] IN
                  IF CurrentRole(l.current_user) # "admin" THEN UserFinish(s, l, 403)
                  ELSE IF ~ActiveUser(r.user_id) THEN UserFinish(s, l, 404)
                  ELSE UserGoto(s, [l EXCEPT !.pc = "commit"])
       \/ /\ r.pc = "commit"     \* user.role = body.role; session.commit()
          /\ users' = [users EXCEPT ![r.user_id].role = r.role]
          /\ UserGoto(s, [r EXCEPT !.pc = "refresh", !.committed = TRUE])
       \/ /\ r.pc = "refresh"
          /\ users' = users
          /\ UserFinish(s, r, 200)
    /\ UNCHANGED <<blacklist, tokens, expired>>

InitAdmin ==
    /\ articles = <<FirstArticle>>
    /\ comments = <<>>
    /\ index = {IndexBody(1, "a", "a", 1, 2)}
    /\ Quiet
    /\ NoSide
    /\ chapter \in {3, 5}
    /\ ads = <<>>
    /\ cache = [id \in AdIds |-> NoEntry]
    /\ adreq = AdIdle
    /\ views = <<>>
    /\ last = [id \in AdIds |-> NoPayload]
    /\ NoMessages
    /\ NoStats
    /\ users = <<UserRow("admin", "admin@test.com", "admin"),
                 UserRow("testmember", "testmember@test.com", "member")>>
    /\ blacklist = {}
    /\ tokens = {[sub |-> "admin", iat |-> 1], [sub |-> "testmember", iat |-> 1]}
    /\ expired = {}
    /\ ureqs = [s \in Slots |-> UserIdle]

NextAdmin ==
    \/ StartWriteAd
    \/ write_ad
    \/ AdReturn
    \/ \E s \in Slots : StartUpdateUserRole(s) \/ update_user_role(s) \/ UserReturn(s)

SpecAdmin == InitAdmin /\ [][NextAdmin]_vars

(***************************************************************************)
(* SpecRecent: as SpecSeq, starting right after the member wrote the first *)
(* article: the key of that write still exists.                            *)
(***************************************************************************)
InitRecent ==
    /\ articles = <<FirstArticle>>
    /\ comments = <<>>
    /\ index = {IndexBody(1, "a", "a", 1, 2)}
    /\ marks = [k \in Keys |-> IF k = <<2, "article_write">> THEN ARTICLE_WRITE_TTL ELSE 0]
    /\ reqs = [s \in Slots |-> Idle]
    /\ served = 0
    /\ faults = 0
    /\ cool = [k \in Keys |-> IF k = <<2, "article_write">>
                              THEN [any |-> ARTICLE_WRITE_TTL, write |-> ARTICLE_WRITE_TTL]
                              ELSE [any |-> 0, write |-> 0]]
    /\ NoSide
    /\ NoAds
    /\ NoMessages
    /\ NoStats
    /\ NoUsers

SpecRecent == InitRecent /\ [][NextSeq]_vars

(***************************************************************************)
(* SpecGone: the user router next to the advertisement reads of chapter 5, *)
(* whose caller is optional (get_optional_user of dependencies/auth.py).   *)
(* An advertisement exists; requests of the user router run concurrently   *)
(* with one advertisement request; no store call raises.                   *)
(***************************************************************************)
\* A variant of the optional caller that looks the row up by name alone.
get_optional_user_by_name(authorization) ==
    IF authorization = NoToken THEN NULL
    ELSE IF Blacklisted(authorization) \/ ~Decodes(authorization) THEN NULL
    ELSE IF \A i \in 1..Len(users) : users[i].username # authorization.sub THEN NULL
    ELSE CHOOSE i \in 1..Len(users) : users[i].username = authorization.sub

\* get_optional_user: None without a header and when get_current_user raises,
\* otherwise the user get_current_user returns.
get_optional_user(authorization) ==
    IF authorization = NoToken THEN NULL
    ELSE IF get_current_user(authorization) # 0 THEN NULL
    ELSE CurrentUser(authorization)

\* The Authorization header of an optional caller: a token, or no header.
OptionalCredentials == Credentials \cup {NoToken}

StartGetAdAs ==
    \E authorization \in OptionalCredentials, id \in AdIds :
       AdArrive([AdIdle EXCEPT !.op = "get_ad", !.pc = "auth",
                               !.authorization = authorization, !.ad_id = id])

StartClickAdAs ==
    \E authorization \in OptionalCredentials, id \in AdIds :
       AdArrive([AdIdle EXCEPT !.op = "click_ad", !.pc = "auth",
                               !.authorization = authorization, !.ad_id = id])

\* current_user: User | None = Depends(get_optional_user), resolved before the
\* body of the handler runs.
Depends_get_optional_user ==
    /\ adreq.pc = "auth"
    /\ AdGoto([adreq EXCEPT !.user = get_optional_user(adreq.authorization),
                            !.pc = IF adreq.op = "get_ad" THEN "get" ELSE "select"])
    /\ UNCHANGED <<ads, cache, views>>

\* The master admin and the member exist and are logged in; advertisement 1
\* exists and is not cached.
InitGone ==
    /\ articles = <<FirstArticle>>
    /\ comments = <<>>
    /\ index = {IndexBody(1, "a", "a", 1, 2)}
    /\ Quiet
    /\ NoSide
    /\ chapter = 5
    /\ ads = <<[title |-> "a", is_deleted |-> FALSE, start_date |-> NULL,
                created_at |-> 1]>>
    /\ cache = [id \in AdIds |-> NoEntry]
    /\ adreq = AdIdle
    /\ views = <<>>
    /\ last = [id \in AdIds |-> NoPayload]
    /\ NoMessages
    /\ NoStats
    /\ users = <<UserRow("admin", "admin@test.com", "admin"),
                 UserRow("testmember", "testmember@test.com", "member")>>
    /\ blacklist = {}
    /\ tokens = {[sub |-> "admin", iat |-> 1], [sub |-> "testmember", iat |-> 1]}
    /\ expired = {}
    /\ ureqs = [s \in Slots |-> UserIdle]

NextGone ==
    \/ TokenExpires
    \/ \E s \in Slots : \/ StartSignUp(s)
                          \/ StartLogin(s)
                          \/ StartDeleteUser(s)
                          \/ StartGetUsers(s)
                          \/ sign_up(s)
                          \/ login(s)
                          \/ delete_user(s)
                          \/ get_users(s)
                          \/ UserReturn(s)
    \/ StartGetAdAs
    \/ StartClickAdAs
    \/ Depends_get_optional_user
    \/ get_ad
    \/ click_ad
    \/ AdReturn

SpecGone == InitGone /\ [][NextGone]_vars

(***************************************************************************)
(* Properties of the rate limit, ownership and soft deletion.              *)
(***************************************************************************)
KeyOf(r) == <<r.user, KindOf(r.op)>>

\* Request s gets the answer of its rate-limit check in this step.
Checks(s) == reqs[s].pc = "check" /\ reqs'[s].pc # "check"

Rejected(r) == r.pc = "done" /\ r.status = 429

\* A request answered 429 has written nothing.
RejectedWritesNothing ==
    \A s \in Slots : Rejected(reqs[s]) => ~reqs[s].committed /\ ~reqs[s].marked

C2_AtMostOneCommit ==
    faults = 0 =>
       \A s, t \in Slots :
          (s # t /\ KindOf(reqs[s].op) # "none" /\ KeyOf(reqs[s]) = KeyOf(reqs[t]))
             => ~(reqs[s].committed /\ reqs[t].committed)

\* C3: a key is created or extended only by the setex of a request whose own
\* commit has returned; a request answered 404, 403 or 429, or whose commit
\* failed, never sets a key.
C3_MarkOnlyAfterCommit ==
    /\ [](\A s \in Slots :
            /\ reqs[s].marked => reqs[s].committed
            /\ (reqs[s].pc = "done" /\ reqs[s].status \in {403, 404, 429})
                  => ~reqs[s].marked /\ ~reqs[s].committed)
    /\ [][\A k \in Keys : marks'[k] > marks[k] =>
             \E s \in Slots : /\ KeyOf(reqs[s]) = k
                              /\ reqs[s].pc = "setex"
                              /\ reqs[s].committed]_vars

\* A write has been answered 201 with its key set after its commit.
C3_Witness ==
    \E s \in Slots : /\ reqs[s].pc = "done"
                     /\ reqs[s].status = 201
                     /\ reqs[s].committed /\ reqs[s].marked
                     /\ marks[KeyOf(reqs[s])] > 0

Mutations == {"edit_article", "delete_article", "edit_comment", "delete_comment"}

\* The entity a mutation names exists (and is not deleted).
TargetExists(r) ==
    IF r.op \in {"edit_article", "delete_article"}
    THEN ActiveArticle(r.article_id, r.board_id)
    ELSE ActiveArticle(r.article_id, r.board_id)
         /\ ActiveComment(r.comment_id, r.article_id)

TargetAuthor(r) ==
    IF r.op \in {"edit_article", "delete_article"}
    THEN articles[r.article_id].author_id
    ELSE comments[r.comment_id].author_id

\* r is an edit or a delete of an existing entity by someone who is not its author.
NonOwner(r) ==
    /\ r.op \in Mutations
    /\ TargetExists(r)
    /\ TargetAuthor(r) # r.user

\* C4 as stated: an edit or delete of an existing article or comment by a user
\* who is not its author is answered 403, whatever the user's role.
C4_NonOwnerForbidden ==
    \A s \in Slots :
       (reqs[s].pc = "done" /\ NonOwner(reqs[s])) => reqs[s].status = 403

\* C4 amended: an edit or delete of an existing article or comment by a user who
\* is not its author, whatever the user's role, writes nothing and is answered
\* 403, UNLESS THE CALLER'S OWN EDIT KEY IS PRESENT: the rate-limit check comes
\* first and answers 429.
C4_NonOwnerForbiddenOrLimited ==
    /\ [](\A s \in Slots :
            (reqs[s].pc = "done" /\ NonOwner(reqs[s])) =>
               /\ reqs[s].status \in {403, 429}
               /\ ~reqs[s].committed /\ ~reqs[s].marked)
    /\ [][\A s \in Slots :
            /\ (Checks(s) /\ NonOwner(reqs[s]))
                  => (Rejected(reqs'[s]) <=> marks[KeyOf(reqs[s])] > 0)
            /\ (reqs[s].pc = "select" /\ reqs'[s].pc # "select" /\ NonOwner(reqs[s]))
                  => (reqs'[s].pc = "done" /\ reqs'[s].status = 403)]_vars

\* The admin, who is not the author, is answered 403.
C4_Witness ==
    \E s \in Slots : /\ reqs[s].pc = "done"
                     /\ NonOwner(reqs[s])
                     /\ Role(reqs[s].user) = "admin"
                     /\ reqs[s].status = 403

\* Request s gets the result of its relational read in this step.
Reads(s) == reqs[s].pc = "query" /\ reqs'[s].pc = "done"

\* C5: a soft-deleted article or comment is in the result of no read (list,
\* single get, search, comments embedded in an article), a get of a deleted
\* article is answered 404, no row is ever removed and is_deleted is never reset.
C5_SoftDeletedHidden ==
    [][/\ Len(articles') >= Len(articles)
       /\ Len(comments') >= Len(comments)
       /\ \A i \in ArticleIds : articles[i].is_deleted => articles'[i].is_deleted
       /\ \A c \in CommentIds : comments[c].is_deleted => comments'[c].is_deleted
       /\ \A s \in Slots : Reads(s) =>
             /\ \A i \in SeqRange(reqs'[s].rows) : ~articles[i].is_deleted
             /\ \A c \in reqs'[s].row_comments : ~comments[c].is_deleted
             /\ (/\ reqs[s].op = "get_article"
                 /\ reqs[s].article_id \in ArticleIds
                 /\ articles[reqs[s].article_id].is_deleted)
                   => reqs'[s].status = 404]_vars

\* A get of a deleted article has been answered 404.
C5_Witness ==
    \E s \in Slots :
       /\ reqs[s].op = "get_article"
       /\ reqs[s].pc = "done"
       /\ reqs[s].article_id \in ArticleIds
       /\ articles[reqs[s].article_id].is_deleted
       /\ reqs[s].status = 404

\* r is an answered get_articles request.
Listed(r) == r.op = "get_articles" /\ r.pc = "done"

\* C6: with last_id = X every returned id is < X; with first_id = X and no
\* last_id every returned id is > X; the result always has at most 10 items, only
\* non-deleted articles of the board, in strictly descending order of id.
C6_CursorPage ==
    \A s \in Slots :
       Listed(reqs[s]) =>
          LET r == reqs[s] IN
          /\ r.status = 200
          /\ Len(r.rows) <= 10
          /\ \A i \in 1..Len(r.rows) :
                /\ r.rows[i] \in ArticleIds
                /\ articles[r.rows[i]].board_id = r.board_id
                /\ articles[r.rows[i]].is_deleted = FALSE
                /\ r.last_id # NULL => r.rows[i] < r.last_id
                /\ (r.last_id = NULL /\ r.first_id # NULL) => r.rows[i] > r.first_id
          /\ \A i, j \in 1..Len(r.rows) : i < j => r.rows[i] > r.rows[j]

\* A page below a cursor is full although more articles of the board lie below
\* the cursor, with a deleted article and one of another board among them.
C6_Witness ==
    \E s \in Slots :
       /\ Listed(reqs[s])
       /\ reqs[s].last_id # NULL
       /\ Len(reqs[s].rows) = 10
       /\ \E i \in ArticleIds :
             /\ i < reqs[s].last_id
             /\ articles[i].board_id = reqs[s].board_id
             /\ ~articles[i].is_deleted
             /\ i \notin SeqRange(reqs[s].rows)
       /\ \E i \in ArticleIds : i < reqs[s].last_id /\ articles[i].is_deleted

\* The advertisement read in flight has been answered.
AdAnswered == adreq.op = "get_ad" /\ adreq.pc = "done"

Recipients(c) ==
    LET aid == comments[c].article_id IN
    ({comments[c].author_id}
       \cup (IF aid \in 1..Len(articles) /\ ~articles[aid].is_deleted
             THEN {articles[aid].author_id} ELSE {})
       \cup {comments[k].author_id :
               k \in {j \in 1..Len(comments) :
                        comments[j].article_id = aid /\ ~comments[j].is_deleted}})
    \ {NULL}

\* The documents inserted by delivery d, and those among them for user u.
DocsOf(d) == {i \in 1..Len(notifications) : notifications[i].delivery = d}
DocsFor(D, u) == {i \in D : notifications[i].userId = u}

\* process_message has answered 200 to a write_comment message for an existing,
\* non-deleted comment.
CommentProcessed ==
    /\ run.pc = "response"
    /\ run.status = 200
    /\ json_loads(run.body).type = "write_comment"
    /\ json_loads(run.body).comment_id \in 1..Len(comments)
    /\ ~comments[json_loads(run.body).comment_id].is_deleted

\* C9: processing one write_comment message for an existing non-deleted comment
\* c inserts exactly one document per member of Recipients(c) and no other
\* document; each is unread and carries c's content.
C9_FanOut ==
    CommentProcessed =>
       LET c == json_loads(run.body).comment_id
           D == DocsOf(queue.deliveries)
       IN /\ \A u \in Recipients(c) : Cardinality(DocsFor(D, u)) = 1
          /\ \A i \in D : /\ notifications[i].userId \in Recipients(c)
                          /\ notifications[i].isRead = FALSE
                          /\ notifications[i].content = comments[c].content

\* The comment's author, the article's author and another commenter are two
\* users: two documents have been inserted.
C9_Witness ==
    /\ CommentProcessed
    /\ LET c == json_loads(run.body).comment_id IN
       /\ Cardinality(Recipients(c)) = 2
       /\ Cardinality(OtherComments(comments[c].article_id)) = 2
       /\ RowActive(articles, comments[c].article_id)
       /\ articles[comments[c].article_id].author_id # NULL
       /\ Cardinality(DocsOf(queue.deliveries)) = 2

\* The users the queue's message is to notify.
Expected ==
    LET body == json_loads(queue.body) IN
    IF body.type = "write_comment"
    THEN IF body.comment_id \in 1..Len(comments) /\ ~comments[body.comment_id].is_deleted
         THEN Recipients(body.comment_id) ELSE {}
    ELSE IF body.type = "write_article"
    THEN IF body.article_id \in 1..Len(articles) /\ ~articles[body.article_id].is_deleted
         THEN {body.user_id} ELSE {}
    ELSE {}

AllDocs == 1..Len(notifications)

\* C10 as stated: after any sequence of deliveries, redeliveries and partly
\* failed runs included, the collection holds exactly one document per
\* (recipient, triggering write) pair.
C10_OnePerPair ==
    /\ \A i \in AllDocs : notifications[i].userId \in Expected
    /\ \A u \in Expected : Cardinality(DocsFor(AllDocs, u)) <= 1
    /\ queue.state = "acked" =>
          \A u \in Expected : Cardinality(DocsFor(AllDocs, u)) = 1

\* C10 amended: after any sequence of deliveries, every document belongs to a
\* recipient of its triggering write and EACH DELIVERY of the message has added
\* at most one document per recipient; once the message is acknowledged every
\* recipient holds AT LEAST one document, and exactly one IF THE MESSAGE WAS
\* DELIVERED ONCE.  (A redelivery after a 5xx, a lost response or a run that
\* failed partway adds a further document for every recipient it reaches.)
C10_OnePerPairAndDelivery ==
    /\ \A i \in AllDocs : notifications[i].userId \in Expected
    /\ \A u \in Expected :
          /\ \A d \in 1..queue.deliveries : Cardinality(DocsFor(DocsOf(d), u)) <= 1
          /\ Cardinality(DocsFor(AllDocs, u)) <= queue.deliveries
    /\ queue.state = "acked" =>
          \A u \in Expected :
             /\ Cardinality(DocsFor(AllDocs, u)) >= 1
             /\ queue.deliveries = 1 => Cardinality(DocsFor(AllDocs, u)) = 1

\* The message has been acknowledged after a redelivery and a recipient holds
\* two documents.
C10_Witness ==
    /\ queue.state = "acked"
    /\ queue.deliveries = 2
    /\ \E u \in Expected : Cardinality(DocsFor(AllDocs, u)) = 2

\* The entity named by a message body is missing: no row has the id, or the row
\* is soft-deleted.
Missing(body) ==
    \/ /\ body.type = "write_article"
       /\ ~(body.article_id \in 1..Len(articles) /\ ~articles[body.article_id].is_deleted)
    \/ /\ body.type = "write_comment"
       /\ ~(body.comment_id \in 1..Len(comments) /\ ~comments[body.comment_id].is_deleted)

\* C11: when the article of a write_article message, or the comment of a
\* write_comment message, does not exist or is soft-deleted, process_message
\* answers 200 and the collection has received no document.
C11_MissingIsNoOp ==
    Missing(json_loads(queue.body)) =>
       /\ notifications = <<>>
       /\ run.pc = "response" => run.status = 200

\* process_message has answered a write_comment message whose comment row exists
\* and is soft-deleted, its author being a user.
C11_Witness ==
    /\ run.pc = "response"
    /\ run.status = 200
    /\ LET body == json_loads(run.body) IN
       /\ body.type = "write_comment"
       /\ body.comment_id \in 1..Len(comments)
       /\ comments[body.comment_id].is_deleted
       /\ comments[body.comment_id].author_id # NULL

\* C12: on_message acknowledges the message exactly when client.post returned a
\* status below 500, and rejects it with requeue (the message is ready for
\* delivery again) when the status is 500 or above or client.post raised;
\* every delivery is settled exactly once, and on_message never returns leaving
\* the message unsettled.
C12_Settlement ==
    /\ queue.acks + queue.requeues =
          (IF queue.state = "unacked" THEN queue.deliveries - 1 ELSE queue.deliveries)
    /\ queue.acks <= 1
    /\ run.pc = "idle" => queue.state \in {"ready", "acked"}
    /\ (queue.deliveries > 0 /\ queue.state # "unacked") =>
          /\ queue.state = "acked" <=> (~queue.seen.raised /\ queue.seen.status < 500)
          /\ queue.state = "ready" <=> (queue.seen.raised \/ queue.seen.status >= 500)
          /\ queue.state = "acked" <=> queue.acks = 1

\* The message was requeued after an answer of 500 or above, delivered again and
\* acknowledged after a 4xx answer.
C12_Witness ==
    /\ queue.state = "acked"
    /\ queue.requeues = 1
    /\ queue.deliveries = 2
    /\ queue.seen.status \in 400..499

\* C13 as stated: a request whose relational commit succeeded reports success
\* whatever failed after the commit (setting the rate-limit mark, indexing the
\* article, removing its document).
C13_DerivedFailureSuppressed ==
    \A s \in Slots :
       (reqs[s].pc = "done" /\ reqs[s].committed) => Successful(reqs[s].status)

\* No request is in flight and no store call has failed.
Quiescent ==
    /\ faults = 0
    /\ \A s \in Slots : reqs[s].pc \in {"idle", "done"}

\* The documents of the index with id i.
DocsWithId(i) == {d \in index : d.id = i}

\* C14 as stated: with no store failure, once no request is in flight the index
\* holds a document for article i exactly if row i exists and is not
\* soft-deleted, and the document's title and content are the row's.
C14_IndexMatchesRows ==
    Quiescent =>
       /\ \A d \in index : d.id \in ArticleIds
       /\ \A i \in ArticleIds :
             IF articles[i].is_deleted
             THEN DocsWithId(i) = {}
             ELSE /\ Cardinality(DocsWithId(i)) = 1
                  /\ \A d \in DocsWithId(i) : /\ d.title = articles[i].title
                                              /\ d.content = articles[i].content

\* Request s is an edit_article with both fields omitted.
EmptyEdit(r) == r.op = "edit_article" /\ r.title = NoText /\ r.content = NoText

\* Request s, past its rate-limit check, finds its article: the row exists in the
\* board, is not soft-deleted and is the caller's.
FindsOwnArticle(r) ==
    /\ r.pc = "select"
    /\ r.article_id \in 1..Len(articles)
    /\ articles[r.article_id].board_id = r.board_id
    /\ ~articles[r.article_id].is_deleted
    /\ articles[r.article_id].author_id = r.user

\* C15: an edit_article by the owner with title and content omitted that passes
\* the rate-limit and existence checks is answered 200 with the row as it is,
\* in a step that leaves the rows, the rate-limit keys and the index as they
\* were; such a request never commits, never sets the key and never indexes.
C15_NoOpEdit ==
    /\ [](\A s \in Slots :
            EmptyEdit(reqs[s]) =>
               /\ reqs[s].pc \in {"check", "select", "done"}
               /\ ~reqs[s].committed
               /\ ~reqs[s].marked)
    /\ [][\A s \in Slots :
            (EmptyEdit(reqs[s]) /\ FindsOwnArticle(reqs[s]) /\ reqs'[s] # reqs[s]) =>
               /\ reqs'[s].pc = "done"
               /\ reqs'[s].status = 200
               /\ reqs'[s].row_title = articles[reqs[s].article_id].title
               /\ reqs'[s].row_content = articles[reqs[s].article_id].content
               /\ articles' = articles
               /\ marks' = marks
               /\ index' = index]_vars

\* An edit_article with both fields omitted has been answered 200 while no
\* article_edit key of the caller exists.
C15_Witness ==
    \E s \in Slots :
       /\ EmptyEdit(reqs[s])
       /\ reqs[s].pc = "done"
       /\ reqs[s].status = 200
       /\ marks[<<reqs[s].user, "article_edit">>] = 0

\* The events of ad a in the collection dated within [start, end).
EventsInWindow(a) ==
    {e \in history : /\ e.ad_id = a
                     /\ e.created_date >= stats.start
                     /\ e.created_date < stats.end}

\* C16: the result of _get_history_stats has one entry per ad_id with an event
\* dated within [yesterday 00:00, today 00:00), whose count is the number of
\* distinct usernames among that ad's events in the window that have a username
\* plus the number of distinct client_ip among those with a null or absent
\* username; an ad_id without an event in the window has no entry.
C16_HistoryStats ==
    stats.pc = "done" =>
       /\ stats.end % DayLen = 0
       /\ stats.end <= clock
       /\ clock < stats.end + DayLen
       /\ stats.start = stats.end - DayLen
       /\ \A a \in AdIds :
             IF EventsInWindow(a) = {}
             THEN \A r \in stats.result : r.ad_id # a
             ELSE /\ Cardinality({r \in stats.result : r.ad_id = a}) = 1
                  /\ \A r \in stats.result :
                        r.ad_id = a =>
                           r.count =
                              Cardinality({e.username : e \in
                                  {x \in EventsInWindow(a) :
                                      x.username \notin {NoText, NoField}}})
                              + Cardinality({e.client_ip : e \in
                                  {x \in EventsInWindow(a) :
                                      x.username \in {NoText, NoField}}})
       /\ \A r \in stats.result : r.ad_id \in AdIds

\* The statistics count 2 for ad 1, from one identified and one anonymous event
\* in the window, and have no entry for ad 2, whose only event is dated today
\* 00:00.
C16_Witness ==
    /\ stats.pc = "done"
    /\ stats.result = {[ad_id |-> 1, count |-> 2]}
    /\ \E e \in history : e.ad_id = 2 /\ e.created_date = stats.end
    /\ \E e \in EventsInWindow(1) : e.username = NoField
    /\ \E e \in EventsInWindow(1) : e.username \in Usernames

\* A get_ad is answered with status st in this step.
GetAdAnswered(st) ==
    /\ adreq.pc # "done"
    /\ adreq'.pc = "done"
    /\ adreq'.op = "get_ad"
    /\ adreq'.status = st

\* C17: in chapter 5 a get_ad answered 200, from the cache or from the
\* relational store, appends exactly one document to the view history, with the
\* request's ad_id and the caller's username (null for an anonymous caller);
\* no other step, a get_ad answered 404 included, changes the collection.
C17_OneViewPerRead ==
    [][chapter = 5 =>
          IF GetAdAnswered(200)
          THEN /\ Len(views') = Len(views) + 1
               /\ SubSeq(views', 1, Len(views)) = views
               /\ views'[Len(views')].ad_id = adreq'.ad_id
               /\ views'[Len(views')].username =
                     (IF adreq'.user = NULL THEN NoText
                      ELSE IF adreq'.user = 1 THEN "admin" ELSE "testmember")
          ELSE views' = views]_vars

\* The view history holds the document of an anonymous read and that of the
\* member's read of the same advertisement, the latter answered from the cache.
C17_Witness ==
    /\ chapter = 5
    /\ Len(views) = 2
    /\ views[1].username = NoText
    /\ views[2].username = "testmember"
    /\ views[1].ad_id = views[2].ad_id
    /\ adreq.pc = "done"
    /\ adreq.op = "get_ad"
    /\ adreq.status = 200
    /\ adreq.hit

\* The rows of the user table with a username or an email.
RowsNamed(username) == {i \in 1..Len(users) : users[i].username = username}
RowsMailed(email) == {i \in 1..Len(users) : users[i].email = email}

\* Request s takes a step.
UserActs(s) == ureqs'[s] # ureqs[s]

\* C18: a sign_up whose username or email is that of an existing user row is
\* answered 409 and adds no row; a sign_up is answered 409 only then, and 200
\* with its row added otherwise; no two rows ever share a username or an email,
\* so of the concurrent sign_up requests with one username (or one email)
\* exactly one succeeds.
C18_SignUpConflict ==
    /\ [](\A username \in SignUpNames : Cardinality(RowsNamed(username)) <= 1)
    /\ [](\A email \in SignUpEmails : Cardinality(RowsMailed(email)) <= 1)
    /\ [](\A s \in Slots :
            (ureqs[s].op = "sign_up" /\ ureqs[s].pc = "done") =>
               /\ ureqs[s].status \in {200, 409}
               /\ ureqs[s].status = 409 =>
                     /\ ~ureqs[s].committed
                     /\ RowsNamed(ureqs[s].username) \cup RowsMailed(ureqs[s].email) # {}
               /\ ureqs[s].status = 200 =>
                     /\ RowsNamed(ureqs[s].username) = {ureqs[s].user_id}
                     /\ RowsMailed(ureqs[s].email) = {ureqs[s].user_id})
    /\ [][\A s \in Slots :
            (ureqs[s].op = "sign_up" /\ ureqs[s].pc = "commit" /\ UserActs(s)) =>
               IF RowsNamed(ureqs[s].username) \cup RowsMailed(ureqs[s].email) # {}
               THEN /\ ureqs'[s].pc = "done"
                    /\ ureqs'[s].status = 409
                    /\ users' = users
               ELSE /\ Len(users') = Len(users) + 1
                    /\ users'[Len(users')].username = ureqs[s].username
                    /\ users'[Len(users')].email = ureqs[s].email]_vars

\* Two sign_up requests with the username "new" and different emails have been
\* answered, one 200 and the other 409.
C18_Witness ==
    /\ ureqs[1].op = "sign_up" /\ ureqs[2].op = "sign_up"
    /\ ureqs[1].pc = "done" /\ ureqs[2].pc = "done"
    /\ ureqs[1].username = "new" /\ ureqs[2].username = "new"
    /\ ureqs[1].email # ureqs[2].email
    /\ {ureqs[1].status, ureqs[2].status} = {200, 409}

\* The caller of request r is authenticated: the token is not revoked, is signed
\* and not expired, and names a user that exists and is not soft-deleted.
Authenticated(r) ==
    /\ r.authorization \notin blacklist
    /\ r.authorization \in tokens
    /\ r.authorization \notin expired
    /\ \E i \in 1..Len(users) :
          users[i].username = r.authorization.sub /\ ~users[i].is_deleted

\* The user row of the caller of request r.
Caller(r) ==
    CHOOSE i \in 1..Len(users) :
       users[i].username = r.authorization.sub /\ ~users[i].is_deleted

\* C19: delete_user(user_id) by an authenticated caller who is neither that user
\* nor an admin is answered 403, whether the target exists or not, and changes
\* nothing; for the user itself or an admin it is answered 404 when the target
\* does not exist or is soft-deleted, and otherwise soft-deletes the target and
\* no other row; no user row becomes soft-deleted in any other way.
C19_DeleteUser ==
    /\ [][\A s \in Slots :
            (/\ ureqs[s].op = "delete_user"
             /\ ureqs[s].pc = "select"
             /\ UserActs(s)
             /\ Authenticated(ureqs[s])) =>
               LET c == Caller(ureqs[s])
                   u == ureqs[s].user_id
               IN /\ users' = users
                  /\ IF c # u /\ users[c].role # "admin"
                     THEN ureqs'[s].pc = "done" /\ ureqs'[s].status = 403
                     ELSE IF u \notin 1..Len(users) \/ users[u].is_deleted
                     THEN ureqs'[s].pc = "done" /\ ureqs'[s].status = 404
                     ELSE ureqs'[s].pc = "commit"]_vars
    /\ [][\A s \in Slots :
            (ureqs[s].op = "delete_user" /\ ureqs[s].pc = "commit" /\ UserActs(s)) =>
               /\ ureqs'[s].status = 204
               /\ users'[ureqs[s].user_id].is_deleted
               /\ \A i \in 1..Len(users) : i # ureqs[s].user_id => users'[i] = users[i]]_vars
    /\ [][\A i \in 1..Len(users) :
            (~users[i].is_deleted /\ users'[i].is_deleted) =>
               \E s \in Slots :
                  /\ ureqs[s].op = "delete_user"
                  /\ ureqs[s].user_id = i
                  /\ UserActs(s)
                  /\ \/ ureqs[s].current_user = i
                     \/ users[ureqs[s].current_user].role = "admin"]_vars

\* The member's delete_user of a user id that has no row has been answered 403.
C19_Witness ==
    \E s \in Slots :
       /\ ureqs[s].op = "delete_user"
       /\ ureqs[s].pc = "done"
       /\ ureqs[s].status = 403
       /\ ureqs[s].user_id > Len(users)
       /\ ureqs[s].authorization.sub = "testmember"

\* A request carrying a token acts for the first time.
FirstStep(s) == ureqs[s].pc = "select" /\ UserActs(s)

\* C20: a token in the blacklist stays there; a logout_all answered 200 leaves
\* its token in the blacklist; from then on every request that carries the token
\* to an endpoint requiring authentication (delete_user, get_users, logout_all
\* again) is answered 401, and validate_token is answered 403.
C20_RevokedForGood ==
    /\ [][blacklist \subseteq blacklist']_vars
    /\ [](\A s \in Slots :
            (ureqs[s].op = "logout_all" /\ ureqs[s].pc = "done"
               /\ ureqs[s].status = 200) => ureqs[s].authorization \in blacklist)
    /\ [][\A s \in Slots :
            (FirstStep(s) /\ ureqs[s].authorization \in blacklist) =>
               /\ ureqs'[s].pc = "done"
               /\ ureqs[s].op \in {"delete_user", "get_users", "logout_all"} =>
                     ureqs'[s].status = 401
               /\ ureqs[s].op = "validate_token" => ureqs'[s].status = 403
               /\ users' = users
               /\ blacklist' = blacklist]_vars

\* A second logout_all with a revoked token, signed and not expired, of a user
\* who exists, has been answered 401.
C20_Witness ==
    \E s \in Slots :
       /\ ureqs[s].op = "logout_all"
       /\ ureqs[s].pc = "done"
       /\ ureqs[s].status = 401
       /\ ureqs[s].authorization \in blacklist
       /\ ureqs[s].authorization \in tokens \ expired
       /\ \E i \in 1..Len(users) :
             users[i].username = ureqs[s].authorization.sub /\ ~users[i].is_deleted

(***************************************************************************)
(* The two rate-limit strategies side by side (SpecTwin).                  *)
(***************************************************************************)
\* Both routers have answered the request in flight.
BothAnswered == reqs[1].pc = "done" /\ mirror.count = served

SameDecision == (mirror.status = 429) <=> (reqs[1].status = 429)

Stores == <<notifications, articles, comments, index, marks, queue>>

AdDeleted(id) == id \in 1..Len(ads) /\ ads[id].is_deleted

\* The request in flight is at its first await, the key ad:{id} of its
\* advertisement exists and the row is soft-deleted.
Stale(op, pc) ==
    /\ adreq.op = op
    /\ adreq.pc = pc
    /\ cache[adreq.ad_id].present
    /\ AdDeleted(adreq.ad_id)

CallerIs(s, admin) ==
    /\ ureqs[s].pc = "select"
    /\ ureqs[s].authorization \in tokens \ (expired \cup blacklist)
    /\ \E i \in 1..Len(users) :
          /\ users[i].username = ureqs[s].authorization.sub
          /\ ~users[i].is_deleted
          /\ (users[i].role = "admin") = admin

\* C24: write_ad and update_user_role called by a user whose role is not admin
\* are answered 403 and leave the advertisement table, the cache and the user
\* table as they were; write_ad called by an admin adds the row, returns 201
\* and has then put the new advertisement under ad:{id}.
C24_AdminOnly ==
    /\ [][adreq.op = "write_ad" /\ adreq.pc = "commit" /\ adreq' # adreq
            => IF users[adreq.user].role # "admin"
               THEN /\ adreq'.pc = "done" /\ adreq'.status = 403
                    /\ UNCHANGED <<ads, cache, users>>
               ELSE /\ adreq'.pc = "refresh"
                    /\ Len(ads') = Len(ads) + 1]_vars
    /\ [][\A s \in Slots :
            ureqs[s].op = "update_user_role" /\ CallerIs(s, FALSE)
               /\ ureqs'[s] # ureqs[s]
            => /\ ureqs'[s].pc = "done" /\ ureqs'[s].status = 403
               /\ UNCHANGED <<ads, cache, users>>]_vars
    /\ [](adreq.op = "write_ad" /\ adreq.pc = "done"
            => /\ adreq.status \in {201, 403}
               /\ adreq.status = 201 =>
                     /\ adreq.ad_id \in 1..Len(ads)
                     /\ cache[adreq.ad_id].present
                     /\ cache[adreq.ad_id].value =
                           json_dumps(_ad_to_dict(adreq.ad_id, ads[adreq.ad_id])))

\* The member, made an admin by update_user_role, has written an advertisement
\* that is now cached.
C24_Witness ==
    /\ adreq.op = "write_ad"
    /\ adreq.pc = "done"
    /\ adreq.status = 201
    /\ adreq.user = 2
    /\ cache[adreq.ad_id].present

(***************************************************************************)
(* write_comment against delete_article (Spec).                            *)
(***************************************************************************)
\* C25: under every interleaving of write_comment with delete_article on the
\* same article, no comment row is committed for an article that is soft-deleted
\* at the moment the comment commits.
C25_NoCommentOnDeletedArticle ==
    [][\A s \in Slots :
         reqs[s].op = "write_comment" /\ reqs[s].pc = "commit"
            /\ Len(comments') > Len(comments)
         => ~articles[reqs[s].article_id].is_deleted]_vars

(***************************************************************************)
(* The keys of the rate limit (Spec).                                      *)
(***************************************************************************)
\* The key rate_limit:{user}:{kind} of a request, as the routers name it.
MarkOf(r) ==
    <<r.user,
      CASE r.op = "write_article" -> "article_write"
        [] r.op \in {"edit_article", "delete_article"} -> "article_edit"
        [] r.op = "write_comment" -> "comment_write"
        [] r.op \in {"edit_comment", "delete_comment"} -> "comment_edit">>

MarkTTL(r) ==
    IF r.op \in {"write_article", "edit_article", "delete_article"} THEN 300 ELSE 60

RateLimitedOps ==
    {"write_article", "edit_article", "delete_article",
     "write_comment", "edit_comment", "delete_comment"}

\* C26: a request changes no key but its own, rate_limit:{its user}:{its kind},
\* which it sets after its commit; its rate-limit check answers 429 exactly when
\* that key exists, whatever the keys of other users and other kinds are; edit
\* and delete of an article have one kind, article_edit, and edit and delete of
\* a comment one kind, comment_edit.
C26_MarksIndependent ==
    [][\A s \in Slots :
         reqs[s].op \in RateLimitedOps /\ reqs'[s].pc # reqs[s].pc
         => /\ \A k \in Keys : k # MarkOf(reqs[s]) => marks'[k] = marks[k]
            /\ marks'[MarkOf(reqs[s])] # marks[MarkOf(reqs[s])]
                  => /\ reqs[s].pc = "setex" /\ reqs[s].committed
                     /\ marks'[MarkOf(reqs[s])] = MarkTTL(reqs[s])
            /\ reqs[s].pc = "setex" /\ reqs'[s].status # 500
                  => marks'[MarkOf(reqs[s])] = MarkTTL(reqs[s])
            /\ reqs[s].pc = "check"
                  => (reqs'[s].status = 429 <=> marks[MarkOf(reqs[s])] > 0)]_vars

\* The author's delete_article is refused because of the key the author's
\* edit_article set: the article was edited, no article was deleted.
C26_Witness ==
    /\ reqs[1].op = "delete_article"
    /\ reqs[1].pc = "done"
    /\ reqs[1].status = 429
    /\ reqs[1].user = 2
    /\ articles[1].title = "b"
    /\ \A i \in 1..Len(articles) : ~articles[i].is_deleted
    /\ marks[<<2, "article_write">>] = 0

(***************************************************************************)
(* Which error a request gets (SpecSeq).                                   *)
(***************************************************************************)
\* The article, or the article and the comment, which request r names exist and
\* are not deleted.
Found(r) ==
    /\ r.article_id \in 1..Len(articles)
    /\ articles[r.article_id].board_id = r.board_id
    /\ ~articles[r.article_id].is_deleted
    /\ r.op \in {"edit_comment", "delete_comment"} =>
          /\ r.comment_id \in 1..Len(comments)
          /\ comments[r.comment_id].article_id = r.article_id
          /\ ~comments[r.comment_id].is_deleted

OwnerOf(r) ==
    IF r.op \in {"edit_comment", "delete_comment"}
    THEN comments[r.comment_id].author_id
    ELSE articles[r.article_id].author_id

\* C27: a request of edit_article, delete_article, edit_comment, delete_comment
\* or write_comment whose caller's key of that kind exists (not set by the
\* request itself) is answered 429 whatever its target; a write_article naming
\* a missing board is answered 404 whatever the caller's key; a request that
\* the rate limit let pass and that committed nothing is answered 404 when its
\* target is missing, and 403 only when the target exists and is another's.
C27_ErrorPrecedence ==
    \A s \in Slots :
       LET r == reqs[s] IN
       r.pc = "done" =>
          /\ r.op \in RateLimitedOps \ {"write_article"}
                /\ marks[MarkOf(r)] > 0 /\ ~r.marked
             => r.status = 429
          /\ r.op = "write_article" /\ r.board_id \notin Boards => r.status = 404
          /\ r.op \in RateLimitedOps \ {"write_article"}
                /\ r.status # 429 /\ ~r.committed /\ ~Found(r)
             => r.status = 404
          /\ r.op \in Mutations /\ r.status # 429 /\ Found(r) /\ OwnerOf(r) # r.user
             => r.status = 403

\* A delete of an article that does not exist, by a caller whose article_edit key
\* exists, has been answered 429.
C27_Witness ==
    /\ reqs[1].pc = "done"
    /\ reqs[1].op = "delete_article"
    /\ reqs[1].article_id \notin 1..Len(articles)
    /\ marks[MarkOf(reqs[1])] > 0
    /\ reqs[1].status = 429

(***************************************************************************)
(* The cursors of get_articles (SpecPage).                                 *)
(***************************************************************************)
\* The non-deleted articles of board b with an id in S.
Visible(b, S) ==
    {i \in S : i \in 1..Len(articles) /\ articles[i].board_id = b
               /\ ~articles[i].is_deleted}

\* The (at most) ten largest ids of V.
Top10(V) == {i \in V : Cardinality({j \in V : j > i}) < 10}

\* C28: when last_id is given, the result is the ten largest visible ids below
\* last_id, whether or not first_id is given as well; when only first_id = X is
\* given, the result is the ten largest visible ids above X, so that with more
\* than ten of them the ones nearest to X are left out.
C28_CursorSemantics ==
    \A s \in Slots :
       Listed(reqs[s]) =>
          LET r == reqs[s]
              below == Visible(r.board_id, {i \in 1..Len(articles) : i < r.last_id})
              above == Visible(r.board_id, {i \in 1..Len(articles) : i > r.first_id})
          IN /\ r.last_id # NULL => SeqRange(r.rows) = Top10(below)
             /\ (r.last_id = NULL /\ r.first_id # NULL) =>
                   /\ SeqRange(r.rows) = Top10(above)
                   /\ Cardinality(above) > 10 =>
                         \A i \in above \ SeqRange(r.rows) :
                            \A j \in SeqRange(r.rows) : i < j

\* Only first_id was given, the page is full, and a visible article above
\* first_id lies below the whole page.
C28_Witness ==
    \E s \in Slots :
       /\ Listed(reqs[s])
       /\ reqs[s].first_id # NULL
       /\ reqs[s].last_id = NULL
       /\ Len(reqs[s].rows) = 10
       /\ \E i \in Visible(reqs[s].board_id, 1..Len(articles)) :
             /\ i > reqs[s].first_id
             /\ \A j \in SeqRange(reqs[s].rows) : i < j

(***************************************************************************)
(* A message process_message cannot read (SpecPoison).                     *)
(***************************************************************************)
\* The deliveries of the message that have ended.
Settled == IF queue.state = "unacked" THEN queue.deliveries - 1 ELSE queue.deliveries

\* C29: for a message whose body is not JSON, or is a write_article without
\* article_id or user_id, or a write_comment without comment_id, every answer of
\* process_message is 500, every delivery ends in a reject with requeue, the
\* message is never acknowledged, and it is delivered again and again: as many
\* times as the run allows (MaxDeliveries), after which it is ready once more.
C29_PoisonRedelivered ==
    /\ [](queue.body \in BadBodies =>
            /\ run.pc = "response" => run.status = 500
            /\ queue.acks = 0
            /\ queue.requeues = Settled
            /\ queue.state \in {"ready", "unacked"}
            /\ queue.deliveries > 0 /\ queue.state = "ready" =>
                  queue.seen.raised \/ queue.seen.status >= 500)
    /\ (queue.body \in BadBodies)
          ~> (queue.deliveries = MaxDeliveries /\ queue.state = "ready")

\* A write_article message without user_id is ready again after its last
\* delivery was answered 500.
C29_Witness ==
    /\ queue.body \in BadBodies
    /\ json_loads(queue.body).type = "write_article"
    /\ queue.deliveries = MaxDeliveries
    /\ queue.state = "ready"
    /\ queue.requeues = MaxDeliveries
    /\ queue.seen = Returned(500)

\* delete_user has committed for the user of this name.
Gone(username) ==
    \E i \in 1..Len(users) : users[i].username = username /\ users[i].is_deleted

\* A token the server signed for a user since deleted, not expired.
TokenOfGone(token) ==
    token \in tokens /\ token \notin expired /\ Gone(token.sub)

\* The optional caller of the advertisement request is resolved in this step.
ResolvesCaller == adreq.pc = "auth" /\ adreq' # adreq

\* C30: once delete_user has committed for user u, a request that presents u's
\* unexpired token to an endpoint requiring authentication is answered 401 and
\* changes nothing, and login as u is answered 401; get_ad and click_ad take the
\* same token for no caller, go on, are answered 200 for an existing
\* advertisement and record a document whose username is null; u's row stays
\* deleted and keeps its username and email, and a sign_up with either is
\* answered 409.
C30_DeletedUser ==
    /\ [][\A s \in Slots :
            (/\ FirstStep(s)
             /\ ureqs[s].op \in {"delete_user", "get_users"}
             /\ TokenOfGone(ureqs[s].authorization)) =>
               /\ ureqs'[s].pc = "done"
               /\ ureqs'[s].status = 401
               /\ users' = users
               /\ blacklist' = blacklist]_vars
    /\ [][\A s \in Slots :
            (FirstStep(s) /\ ureqs[s].op = "login" /\ Gone(ureqs[s].username)) =>
               /\ ureqs'[s].pc = "done"
               /\ ureqs'[s].status = 401
               /\ tokens' = tokens]_vars
    /\ [][(ResolvesCaller /\ TokenOfGone(adreq.authorization)) =>
             /\ adreq'.user = NULL
             /\ adreq'.pc # "done"]_vars
    /\ [](\A op \in {"get_ad", "click_ad"} :
            (/\ adreq.op = op
             /\ adreq.pc = "done"
             /\ adreq.user = NULL
             /\ ActiveAd(adreq.ad_id)) =>
               LET docs == IF op = "get_ad" THEN views ELSE clicks IN
               /\ adreq.status = 200
               /\ docs # <<>>
               /\ docs[Len(docs)] = [ad_id |-> adreq.ad_id, username |-> NoText])
    /\ [][\A i \in 1..Len(users) :
            users[i].is_deleted =>
               /\ users'[i].is_deleted
               /\ users'[i].username = users[i].username
               /\ users'[i].email = users[i].email]_vars
    /\ [][\A s \in Slots :
            (/\ ureqs[s].op = "sign_up"
             /\ ureqs[s].pc = "commit"
             /\ UserActs(s)
             /\ \E i \in 1..Len(users) :
                   /\ users[i].is_deleted
                   /\ \/ users[i].username = ureqs[s].username
                      \/ users[i].email = ureqs[s].email) =>
               /\ ureqs'[s].pc = "done"
               /\ ureqs'[s].status = 409
               /\ users' = users]_vars

\* The deleted member's unexpired token was presented to get_ad: the request
\* has been answered 200 and its view document has no username.
C30_Witness ==
    /\ adreq.op = "get_ad"
    /\ adreq.pc = "done"
    /\ adreq.status = 200
    /\ adreq.authorization.sub = "testmember"
    /\ TokenOfGone(adreq.authorization)
    /\ adreq.authorization \notin blacklist
    /\ adreq.user = NULL
    /\ views # <<>>
    /\ views[Len(views)].username = NoText

====
